---- MODULE Spec2Model ----
(***************************************************************************)
(* CVision ai-server: the Resume Intelligence Pipeline.                     *)
(*                                                                         *)
(* The services are stateless static functions.  Each service entry point  *)
(* is one action: it draws its arguments from bounded sets and records the *)
(* request together with the response the code returns for it.             *)
(*                                                                         *)
(* Floats are modelled as exact rationals <<numerator, denominator>>.      *)
(* The resume text given to the parser is a string; the experience text is *)
(* a sequence of lines, each holding what the patterns of the analysis     *)
(* capture in it.                                                          *)
(***************************************************************************)
EXTENDS Integers, Sequences, FiniteSets, TLC

VARIABLES scoreReq, scoreResp, expReq, expResp, parseReq, parseResp, skillReq, skillResp, reportReq, reportResp, entReq, entResp, pipeReq, pipeRuns, keywordLists, sectionKeywords, supportedSections, detectReq, detectResp, classifyReq, classifyResp, strengthReq, strengthResp, expClock

vars == <<scoreReq, scoreResp, expReq, expResp, parseReq, parseResp, skillReq, skillResp, reportReq, reportResp, entReq, entResp, pipeReq, pipeRuns, keywordLists, sectionKeywords, supportedSections, detectReq, detectResp, classifyReq, classifyResp, strengthReq, strengthResp, expClock>>

\* The value of a request or response slot before the service was called.
None == [status |-> "none"]

\* The slots of the report generator, and their value while it is not called.
\* ResumeParsingService.SECTION_KEYWORDS as the class body writes it
\* (parsing/service.py).
SECTION_KEYWORDS ==
    << [type |-> "summary", keywords |->
          << "summary", "profile", "objective", "professional summary",
             "career objective", "professional profile", "about me",
             "overview", "career summary", "personal statement" >>],
       [type |-> "skills", keywords |->
          << "skills", "technical skills", "core competencies", "competencies",
             "technical competencies", "key skills", "expertise", "technologies",
             "technical expertise", "programming skills", "software skills",
             "tools and technologies", "technical proficiencies" >>],
       [type |-> "experience", keywords |->
          << "experience", "work experience", "professional experience",
             "employment history", "career history", "work history",
             "professional background", "employment", "career",
             "work", "positions held", "professional positions" >>],
       [type |-> "education", keywords |->
          << "education", "educational background", "academic background",
             "academic qualifications", "academic history", "qualifications",
             "degrees", "academic achievements", "schooling", "universities",
             "academic", "studies" >>],
       [type |-> "projects", keywords |->
          << "projects", "key projects", "notable projects", "project experience",
             "project highlights", "portfolio", "work samples", "achievements",
             "accomplishments", "personal projects", "side projects" >>],
       [type |-> "certifications", keywords |->
          << "certifications", "certificates", "professional certifications",
             "licenses", "credentials", "training", "professional development",
             "continuing education", "professional training", "courses",
             "certified", "accreditation" >> ] >>

\* The table is a dictionary of references to list objects.  keywordLists
\* holds the list objects by identity, sectionKeywords is the class attribute
\* and supportedSections the dictionary a caller of get_supported_sections holds
\* (<<>> before the call).
InitialKeywordLists == [i \in 1..Len(SECTION_KEYWORDS) |-> SECTION_KEYWORDS[i].keywords]

InitialSectionKeywords ==
    [i \in 1..Len(SECTION_KEYWORDS) |-> [type |-> SECTION_KEYWORDS[i].type, list |-> i]]

tableVars == <<keywordLists, sectionKeywords, supportedSections>>

TableIdle ==
    /\ keywordLists = InitialKeywordLists
    /\ sectionKeywords = InitialSectionKeywords
    /\ supportedSections = <<>>

\* A dictionary with its lists read through the references.
TableOf(dict, lists) ==
    [i \in 1..Len(dict) |-> [type |-> dict[i].type, keywords |-> lists[dict[i].list]]]

\* The slots of a direct call of _calculate_experience_score.
strengthVars == <<strengthReq, strengthResp>>

StrengthIdle == strengthReq = None /\ strengthResp = None

\* The years datetime.now() shows at successive reads while analyze_experience
\* runs; <<>> before the call.
clockVars == <<expClock>>

ClockIdle == expClock = <<>>

sectionVars == <<detectReq, detectResp, classifyReq, classifyResp>>

SectionCallsIdle ==
    /\ detectReq = None /\ detectResp = None
    /\ classifyReq = None /\ classifyResp = None

reportVars == <<reportReq, reportResp>>

ReportIdle == reportReq = None /\ reportResp = <<>>

\* The slots of the entity extraction, and their value while it is not called.
entityVars == <<entReq, entResp>>

pipelineVars == <<pipeReq, pipeRuns>>

PipelineIdle == pipeReq = None /\ pipeRuns = <<>>

EntityIdle == entReq = None /\ entResp = None

(***************************************************************************)
(* Exact rational arithmetic standing for Python float arithmetic.         *)
(***************************************************************************)
RECURSIVE Gcd(_, _)
Gcd(a, b) == IF b = 0 THEN a ELSE Gcd(b, a % b)

Abs(x) == IF x < 0 THEN -x ELSE x

Norm(n, d) ==
    LET g == Gcd(Abs(n), d)
    IN  IF g = 0 THEN <<0, 1>> ELSE <<n \div g, d \div g>>

R(n) == <<n, 1>>
Frac(n, d) == Norm(n, d)
RAdd(x, y) == Norm(x[1] * y[2] + y[1] * x[2], x[2] * y[2])
RMul(x, y) == Norm(x[1] * y[1], x[2] * y[2])
RLe(x, y) == x[1] * y[2] <= y[1] * x[2]
RLt(x, y) == x[1] * y[2] < y[1] * x[2]
RMin(x, y) == IF RLe(x, y) THEN x ELSE y
RMax(x, y) == IF RLe(x, y) THEN y ELSE x

\* int(x): truncation toward zero.
Trunc(x) == IF x[1] >= 0 THEN x[1] \div x[2] ELSE -((-x[1]) \div x[2])

\* round(x) of a non-negative float: to the nearest integer, ties to even.
PyRound(x) ==
    LET q == x[1] \div x[2]
        r == x[1] % x[2]
    IN  IF 2 * r < x[2] THEN q
        ELSE IF 2 * r > x[2] THEN q + 1
        ELSE IF q % 2 = 0 THEN q ELSE q + 1

RECURSIVE SumSeq(_)
SumSeq(s) == IF s = <<>> THEN 0 ELSE Head(s) + SumSeq(Tail(s))

\* s[:n]
Take(s, n) == SubSeq(s, 1, IF Len(s) < n THEN Len(s) ELSE n)

\* All sequences over S of length at most n.
SeqsUpTo(S, n) == UNION {[1..k -> S] : k \in 0..n}

(***************************************************************************)
(* GlobalResumeScoring (modules/scoring/service.py, schemas.py)            *)
(***************************************************************************)

\* Weights are floats; the model counts them in thousandths.
DefaultWeights == [skills_weight |-> 350, experience_weight |-> 400,
                   achievement_weight |-> 150, structure_weight |-> 100]

TotalWeight(w) ==
    w.skills_weight + w.experience_weight + w.achievement_weight + w.structure_weight

\* A validation that accepts every configuration.
ValidateWeightsAcceptAll(w) == TRUE

\* abs(total - 1.0) < 0.001
validate_weights(w) == Abs(TotalWeight(w) - 1000) < 1

CRITICAL_SKILLS ==
    {"python", "java", "javascript", "typescript", "c++", "c#", "go", "rust",
     "aws", "azure", "gcp", "docker", "kubernetes", "jenkins", "terraform",
     "sql", "machine learning", "data science", "tensorflow", "pytorch",
     "react", "angular", "vue", "node.js", "spring", "django",
     "postgresql", "mongodb", "redis", "elasticsearch"}

ESSENTIAL_SECTIONS == <<"experience", "skills">>
IMPORTANT_SECTIONS == <<"summary", "education">>
OPTIONAL_SECTIONS == <<"projects", "certifications">>

\* The dict of sections _compute_structure_score builds, in its insertion order.
StructureSectionOrder ==
    <<"experience", "skills", "summary", "education", "projects", "certifications">>

\* (min, max) -> tier, in the dict's insertion order.
SCORE_TIERS ==
    << <<90, 100, "Excellent">>, <<75, 89, "Good">>, <<60, 74, "Fair">>, <<0, 59, "Poor">> >>

\* str.lower() on the skill names the model uses.
LowerWord(w) ==
    CASE w = "Python" -> "python"
      [] w = "PYTHON" -> "python"
      [] w = "COBOL" -> "cobol"
      [] w = "Cobol" -> "cobol"
      [] OTHER -> w

RECURSIVE SumScores(_)
SumScores(sk) == IF sk = <<>> THEN 0 ELSE Head(sk).score + SumScores(Tail(sk))

IsCritical(s) == LowerWord(s.skill) \in CRITICAL_SKILLS

_compute_skills_score(skill_analysis) ==
    IF skill_analysis = <<>>
    THEN [score |-> R(0), average_proficiency |-> R(0), critical_bonus |-> 0]
    ELSE LET n == Len(skill_analysis)
             average_proficiency == Frac(SumScores(skill_analysis), n)
             critical_skills_count == Cardinality({i \in 1..n : IsCritical(skill_analysis[i])})
             critical_bonus == IF critical_skills_count * 2 < 10
                               THEN critical_skills_count * 2 ELSE 10
             diversity_bonus == RMin(Frac(n, 2), R(5))
         IN  [score |-> RMin(RAdd(RAdd(average_proficiency, R(critical_bonus)),
                                  diversity_bonus), R(100)),
              average_proficiency |-> average_proficiency,
              critical_bonus |-> critical_bonus]

seniority_bonuses(level) ==
    CASE level = "Intern" -> 0
      [] level = "Entry" -> 2
      [] level = "Junior" -> 4
      [] level = "Mid" -> 6
      [] level = "Senior" -> 10
      [] level = "Executive" -> 15
      [] OTHER -> 2

_compute_experience_score(e) ==
    LET base_score == e.experience_strength_score
        seniority_bonus == seniority_bonuses(e.seniority_level)
        years == e.total_experience_years
        years_bonus == IF years > 0 THEN RMin(Frac(years * 3, 2), R(10)) ELSE R(0)
        verbs == e.strong_verbs_count + e.weak_verbs_count
        verb_bonus == IF verbs > 0 THEN Frac(e.strong_verbs_count * 5, verbs) ELSE R(0)
    IN  RMin(RAdd(RAdd(R(base_score + seniority_bonus), years_bonus), verb_bonus), R(100))

\* The multipliers in hundredths.
seniority_multipliers(level) ==
    CASE level = "Intern" -> 120
      [] level = "Entry" -> 110
      [] level = "Junior" -> 100
      [] level = "Mid" -> 95
      [] level = "Senior" -> 90
      [] level = "Executive" -> 85
      [] OTHER -> 100

_compute_achievement_score(e) ==
    RMin(Frac(e.achievement_score * seniority_multipliers(e.seniority_level), 100), R(100))

\* A section's content is modelled by len(content.strip()); 0 stands for an empty
\* or whitespace-only section.
Present(sections, name) == sections[name] > 0

RECURSIVE SectionPoints(_, _, _)
SectionPoints(sections, names, pts) ==
    IF names = <<>> THEN 0
    ELSE (IF Present(sections, Head(names)) THEN pts ELSE 0)
         + SectionPoints(sections, Tail(names), pts)

RECURSIVE MissingOf(_, _)
MissingOf(sections, names) ==
    IF names = <<>> THEN <<>>
    ELSE (IF Present(sections, Head(names)) THEN <<>> ELSE <<Head(names)>>)
         \o MissingOf(sections, Tail(names))

RECURSIVE LengthBonus(_, _)
LengthBonus(sections, names) ==
    IF names = <<>> THEN 0
    ELSE (IF sections[Head(names)] > 100 THEN 2
          ELSE IF sections[Head(names)] > 50 THEN 1 ELSE 0)
         + LengthBonus(sections, Tail(names))

\* A variant that also lists the empty optional sections as missing.
StructureListingOptional(sections) ==
    LET raw == SectionPoints(sections, ESSENTIAL_SECTIONS, 40)
               + SectionPoints(sections, IMPORTANT_SECTIONS, 10)
               + SectionPoints(sections, OPTIONAL_SECTIONS, 5)
               + LengthBonus(sections, StructureSectionOrder)
    IN  [score |-> IF raw < 100 THEN raw ELSE 100,
         missing_sections |-> MissingOf(sections, ESSENTIAL_SECTIONS)
                              \o MissingOf(sections, IMPORTANT_SECTIONS)
                              \o MissingOf(sections, OPTIONAL_SECTIONS)]

_compute_structure_score(sections) ==
    LET raw == SectionPoints(sections, ESSENTIAL_SECTIONS, 40)
               + SectionPoints(sections, IMPORTANT_SECTIONS, 10)
               + SectionPoints(sections, OPTIONAL_SECTIONS, 5)
               + LengthBonus(sections, StructureSectionOrder)
    IN  [score |-> IF raw < 100 THEN raw ELSE 100,
         missing_sections |-> MissingOf(sections, ESSENTIAL_SECTIONS)
                              \o MissingOf(sections, IMPORTANT_SECTIONS)]

RECURSIVE TierScan(_, _)
TierScan(tiers, score) ==
    IF tiers = <<>> THEN "Poor"
    ELSE IF RLe(R(Head(tiers)[1]), score) /\ RLe(score, R(Head(tiers)[2]))
         THEN Head(tiers)[3]
         ELSE TierScan(Tail(tiers), score)

_get_recommendation_tier(score) == TierScan(SCORE_TIERS, score)

Opt(cond, line) == IF cond THEN <<line>> ELSE <<>>

_generate_insights(skills_score, experience_score, achievement_score, structure_score, e, missing_sections) ==
    LET strengths ==
            Opt(RLe(R(80), skills_score), "Strong technical skills portfolio")
            \o Opt(RLe(R(80), experience_score), "Excellent professional experience")
            \o Opt(RLe(R(75), achievement_score), "Strong track record of quantified achievements")
            \o Opt(structure_score >= 90, "Well-structured resume with comprehensive sections")
            \o Opt(e.seniority_level \in {"Senior", "Executive"}, "Senior-level professional experience")
        improvements ==
            Opt(RLt(skills_score, R(60)), "Consider expanding technical skills or highlighting existing expertise")
            \o Opt(RLt(experience_score, R(60)), "Strengthen experience descriptions with more impact-focused language")
            \o Opt(RLt(achievement_score, R(50)), "Add more quantified achievements and measurable results")
            \o Opt(structure_score < 70, "Improve resume structure and ensure all key sections are present")
            \o Opt(missing_sections # <<>>, "Add missing sections")
            \o Opt(e.weak_verbs_count > e.strong_verbs_count, "Use more strong action verbs to describe accomplishments")
        s2 == IF strengths = <<>> THEN <<"Resume submitted for professional analysis">> ELSE strengths
        i2 == IF improvements = <<>> THEN <<"Continue building experience and skills">> ELSE improvements
    IN  [key_strengths |-> Take(s2, 5), improvement_areas |-> Take(i2, 5)]

\* The weighted formula: sum of component * weight, with the weights in thousandths.
WeightedSum(sk, ex, ac, st, w) ==
    RAdd(RAdd(RMul(sk, Frac(w.skills_weight, 1000)),
              RMul(ex, Frac(w.experience_weight, 1000))),
         RAdd(RMul(ac, Frac(w.achievement_weight, 1000)),
              RMul(R(st), Frac(w.structure_weight, 1000))))

Clamp0to100(x) == RMax(R(0), RMin(R(100), x))

\* The weights the call applies: None or an invalid configuration gives the defaults.
AppliedWeights(scoring_weights) ==
    IF scoring_weights = None THEN DefaultWeights
    ELSE IF ~validate_weights(scoring_weights) THEN DefaultWeights
    ELSE scoring_weights

\* The response of the except branch.
ScoringErrorResponse ==
    [status |-> "ok", overall_score |-> 0,
     skills_score |-> R(0), experience_score |-> R(0), achievement_score |-> R(0),
     structure_score |-> 0, missing_sections |-> <<>>,
     scoring_weights |-> DefaultWeights, total_skills_analyzed |-> 0,
     recommendation_tier |-> "Poor", key_strengths |-> <<>>,
     improvement_areas |-> <<"Unable to analyze resume due to processing error">>,
     path |-> "except"]

compute_final_resume_score(skill_analysis, experience_analysis, structured_sections, scoring_weights) ==
    IF experience_analysis = None
    THEN ScoringErrorResponse   \* attribute access on None raises inside the try
    ELSE
    LET w == AppliedWeights(scoring_weights)
        skills == _compute_skills_score(skill_analysis)
        experience_score == _compute_experience_score(experience_analysis)
        achievement_score == _compute_achievement_score(experience_analysis)
        structure == _compute_structure_score(structured_sections)
        overall_score == Clamp0to100(WeightedSum(skills.score, experience_score,
                                                 achievement_score, structure.score, w))
        insights == _generate_insights(skills.score, experience_score, achievement_score,
                                      structure.score, experience_analysis,
                                      structure.missing_sections)
    IN  [status |-> "ok", overall_score |-> PyRound(overall_score),
         skills_score |-> skills.score, experience_score |-> experience_score,
         achievement_score |-> achievement_score,
         structure_score |-> structure.score,
         missing_sections |-> structure.missing_sections,
         scoring_weights |-> w, total_skills_analyzed |-> Len(skill_analysis),
         recommendation_tier |-> _get_recommendation_tier(overall_score),
         key_strengths |-> insights.key_strengths,
         improvement_areas |-> insights.improvement_areas,
         path |-> "try"]

(***************************************************************************)
(* Arguments of compute_final_resume_score.                                *)
(***************************************************************************)
MaxSkills == 2

Weights(a, b, c, d) ==
    [skills_weight |-> a, experience_weight |-> b,
     achievement_weight |-> c, structure_weight |-> d]

\* None, the defaults, configurations that do not sum to 1.0, one with a negative
\* weight that sums to 1.0, and valid ones.
WeightInputs ==
    {None, DefaultWeights, Weights(500, 500, 500, 500), Weights(300, 300, 300, 99),
     Weights(1500, -500, 0, 0), Weights(250, 250, 250, 250), Weights(1000, 0, 0, 0),
     Weights(0, 0, 0, 1000)}

\* SkillProficiency records; level and years_experience are not read by the scorer.
SkillRecordInputs == [skill : {"Python", "COBOL"}, score : {10, 90}]

SkillAnalysisInputs == SeqsUpTo(SkillRecordInputs, MaxSkills)

VerbCountInputs == {<<0, 0>>, <<3, 1>>, <<1, 3>>}

\* ExperienceAnalysisData records, and None for a missing record.
ExperienceInputs ==
    {[total_experience_years |-> y, seniority_level |-> s, achievement_score |-> a,
      experience_strength_score |-> x, strong_verbs_count |-> v[1],
      weak_verbs_count |-> v[2]] :
        y \in {0, 10}, s \in {"Entry", "Intern", "Senior"}, a \in {0, 100},
        x \in {0, 60, 100}, v \in VerbCountInputs}
    \cup {None}

SectionLengths(ex, sk, su, ed, pr, ce, ot) ==
    [experience |-> ex, skills |-> sk, summary |-> su, education |-> ed,
     projects |-> pr, certifications |-> ce, other |-> ot]

\* ResumeStructuredSections, each section given by len(content.strip()).
SectionInputs ==
    {SectionLengths(0, 0, 0, 0, 0, 0, 0), SectionLengths(120, 60, 0, 0, 0, 0, 0),
     SectionLengths(120, 120, 80, 30, 0, 0, 10), SectionLengths(200, 150, 120, 101, 51, 50, 0),
     SectionLengths(50, 101, 0, 0, 0, 0, 10)}

\* A request not yet served.
ScoreRequests ==
    [status : {"called"}, skill_analysis : SkillAnalysisInputs,
     experience_analysis : ExperienceInputs, structured_sections : SectionInputs,
     scoring_weights : WeightInputs]

ComputeFinalResumeScore ==
    /\ scoreReq # None
    /\ scoreResp = None
    /\ scoreResp' = compute_final_resume_score(scoreReq.skill_analysis,
                        scoreReq.experience_analysis, scoreReq.structured_sections,
                        scoreReq.scoring_weights)
    /\ UNCHANGED <<scoreReq, expReq, expResp, parseReq, parseResp, skillReq, skillResp, reportVars, entityVars, pipelineVars, tableVars, sectionVars, strengthVars, clockVars>>

InitScoring ==
    /\ scoreReq \in ScoreRequests /\ scoreResp = None
    /\ expReq = None /\ expResp = None
    /\ parseReq = None /\ parseResp = None
    /\ skillReq = None /\ skillResp = None
    /\ ReportIdle
    /\ EntityIdle
    /\ PipelineIdle
    /\ TableIdle
    /\ SectionCallsIdle
    /\ StrengthIdle
    /\ ClockIdle

NextScoring == ComputeFinalResumeScore

SpecScoring == InitScoring /\ [][NextScoring]_vars

(***************************************************************************)
(* Properties of GlobalResumeScoring.                                      *)
(***************************************************************************)
ScoreReturned == scoreResp # None

\* The band table of the documentation, read on the integer score.
BandOf(n) ==
    IF n >= 90 /\ n <= 100 THEN "Excellent"
    ELSE IF n >= 75 /\ n <= 89 THEN "Good"
    ELSE IF n >= 60 /\ n <= 74 THEN "Fair"
    ELSE "Poor"

\* C1: every response carries an integer overall_score in 0..100 and the
\* recommendation_tier of the band of the table that contains that score.
C1_TierIsBandOfOverallScore ==
    ScoreReturned =>
        /\ scoreResp.overall_score \in 0..100
        /\ scoreResp.recommendation_tier = BandOf(scoreResp.overall_score)

WeightsGiven == ScoreReturned /\ scoreReq.scoring_weights # None

\* The overall score the default weights 0.35/0.40/0.15/0.10 give for the
\* component scores of the response.
OverallWithDefaults ==
    PyRound(Clamp0to100(
        RAdd(RAdd(RMul(scoreResp.skills_score, Frac(35, 100)),
                  RMul(scoreResp.experience_score, Frac(40, 100))),
             RAdd(RMul(scoreResp.achievement_score, Frac(15, 100)),
                  RMul(R(scoreResp.structure_score), Frac(10, 100))))))

NonSummingWeightsCall ==
    /\ WeightsGiven
    /\ scoreReq.experience_analysis # None
    /\ TotalWeight(scoreReq.scoring_weights) # 1000

\* C2: weights that do not sum to 1.0 are rejected: the response is a normal one
\* (not the error response), reports the default weights and carries the overall
\* score the default weights give.
C2_NonSummingWeightsFallBack ==
    NonSummingWeightsCall =>
        /\ scoreResp.path = "try"
        /\ scoreResp.scoring_weights = Weights(350, 400, 150, 100)
        /\ scoreResp.overall_score = OverallWithDefaults

C2_Witness ==
    /\ NonSummingWeightsCall
    /\ scoreReq.scoring_weights = Weights(500, 500, 500, 500)
    /\ scoreResp.overall_score > 0

HasNegativeWeight(w) ==
    \/ w.skills_weight < 0 \/ w.experience_weight < 0
    \/ w.achievement_weight < 0 \/ w.structure_weight < 0

\* C3: a configuration with a negative weight is invalid, also when its weights
\* sum to 1.0, and is replaced by the default weights.
C3_NegativeWeightsFallBack ==
    (WeightsGiven /\ scoreReq.experience_analysis # None
     /\ HasNegativeWeight(scoreReq.scoring_weights)) =>
        scoreResp.scoring_weights = Weights(350, 400, 150, 100)

\* A call whose SectionMap has content in experience and skills only, served by
\* the normal path.
OnlyExperienceAndSkills ==
    /\ ScoreReturned
    /\ scoreResp.path = "try"
    /\ scoreReq.structured_sections.experience > 0
    /\ scoreReq.structured_sections.skills > 0
    /\ scoreReq.structured_sections.summary = 0
    /\ scoreReq.structured_sections.education = 0
    /\ scoreReq.structured_sections.projects = 0
    /\ scoreReq.structured_sections.certifications = 0

\* +2 for a section of more than 100 characters, +1 for more than 50.
BonusOfLength(n) == IF n > 100 THEN 2 ELSE IF n > 50 THEN 1 ELSE 0

EightyPlusLengthBonus ==
    80 + BonusOfLength(scoreReq.structured_sections.experience)
       + BonusOfLength(scoreReq.structured_sections.skills)

\* C11 as stated: with only experience and skills non-empty, structure_score is
\* 80 plus the length bonus of the two sections and missing_sections is
\* [summary, education, projects, certifications].
C11_MissingListsAllFourEmptySections ==
    OnlyExperienceAndSkills =>
        /\ scoreResp.structure_score = EightyPlusLengthBonus
        /\ scoreResp.missing_sections
               = <<"summary", "education", "projects", "certifications">>

\* C11 amended: with only experience and skills non-empty, structure_score is
\* 80 plus the length bonus of the two sections and missing_sections is
\* [summary, education]: the empty optional sections projects and certifications
\* are not listed.
C11_MissingListsEmptyImportantSections ==
    OnlyExperienceAndSkills =>
        /\ scoreResp.structure_score = EightyPlusLengthBonus
        /\ scoreResp.missing_sections = <<"summary", "education">>

C11_Witness ==
    /\ OnlyExperienceAndSkills
    /\ scoreReq.structured_sections.experience = 120
    /\ scoreResp.structure_score = 83

\* C13: every response carries between 1 and 5 key_strengths and between 1 and
\* 5 improvement_areas, whatever path the call took.
C13_InsightListsNeverEmpty ==
    ScoreReturned =>
        /\ Len(scoreResp.key_strengths) \in 1..5
        /\ Len(scoreResp.improvement_areas) \in 1..5

(***************************************************************************)
(* ExperienceAnalysisService (modules/experience_analysis/service.py)      *)
(*                                                                         *)
(* The experience text is a sequence of lines.  A line is a sentence that  *)
(* ends with a full stop (txt is the sentence without the stop), or a line *)
(* of blanks; the lines are joined by newlines.  A line records what the   *)
(* regular expressions of the service find in it: the groups each pattern  *)
(* captures, the keywords it contains.                                     *)
(***************************************************************************)

\* A captured group: a run of digits, or the word "present".
Digits(n) == [present |-> FALSE, n |-> n]
PresentWord == [present |-> TRUE, n |-> 0]

Line(txt, explicit, dates, span, keywords, verbs, achievements) ==
    [txt |-> txt, explicit |-> explicit, dates |-> dates, span |-> span,
     keywords |-> keywords, strong |-> verbs[1], weak |-> verbs[2],
     achievements |-> achievements, short |-> TRUE]

\* explicit: <<pattern index of experience_patterns, captured number>>, one per match.
\* dates: <<pattern index of DATE_PATTERNS, groups>>, one per match.
\* span: the years the line's date range denotes, <<start, end>> with an end of
\*       PresentWord for "present"; <<>> when the line holds no date range.
Blanks == Line("   ", <<>>, <<>>, <<>>, {}, <<0, 0>>, <<>>)

YearsOfExperience(txt, n) ==
    Line(txt, << <<1, n>>, <<2, n>> >>, <<>>, <<>>, {}, <<0, 0>>, <<>>)
YrsExp(txt, n) == Line(txt, << <<2, n>> >>, <<>>, <<>>, {}, <<0, 0>>, <<>>)
YearsIn(txt, n) == Line(txt, << <<3, n>> >>, <<>>, <<>>, {}, <<0, 0>>, <<>>)

\* "2019 - 2023": DATE_PATTERNS[0].
YearToYear(txt, a, b) ==
    Line(txt, <<>>, << <<1, <<Digits(a), Digits(b)>> >> >>,
         <<Digits(a), Digits(b)>>, {}, <<0, 0>>, <<>>)
\* "2020 - Present": DATE_PATTERNS[1].
YearToPresent(txt, a) ==
    Line(txt, <<>>, << <<2, <<Digits(a), PresentWord>> >> >>,
         <<Digits(a), PresentWord>>, {}, <<0, 0>>, <<>>)
\* "Jan 2020 - Dec 2023": DATE_PATTERNS[2].
MonthToMonth(txt, a, b) ==
    Line(txt, <<>>, << <<3, <<Digits(a), Digits(b)>> >> >>,
         <<Digits(a), Digits(b)>>, {}, <<0, 0>>, <<>>)
\* "Jan 2020 - Present": DATE_PATTERNS[1] finds "2020 - Present", DATE_PATTERNS[3] the whole.
MonthToPresent(txt, a) ==
    Line(txt, <<>>, << <<2, <<Digits(a), PresentWord>> >>, <<4, <<Digits(a), PresentWord>> >> >>,
         <<Digits(a), PresentWord>>, {}, <<0, 0>>, <<>>)
\* "01/2020 - 12/2023": DATE_PATTERNS[4], four groups.
SlashToSlash(txt, m1, a, m2, b) ==
    Line(txt, <<>>, << <<5, <<Digits(m1), Digits(a), Digits(m2), Digits(b)>> >> >>,
         <<Digits(a), Digits(b)>>, {}, <<0, 0>>, <<>>)
\* "01/2020 - Present": DATE_PATTERNS[1] finds "2020 - Present", DATE_PATTERNS[5] three groups.
SlashToPresent(txt, m1, a) ==
    Line(txt, <<>>, << <<2, <<Digits(a), PresentWord>> >>,
                       <<6, <<Digits(m1), Digits(a), PresentWord>> >> >>,
         <<Digits(a), PresentWord>>, {}, <<0, 0>>, <<>>)

\* A sentence without numbers: the seniority keywords it contains as substrings,
\* its counts of strong and weak verbs.
Words(txt, keywords, verbs) == Line(txt, <<>>, <<>>, <<>>, keywords, verbs, <<>>)

\* A sentence of 100 characters or more.
LongWords(txt, keywords, verbs) == [Words(txt, keywords, verbs) EXCEPT !.short = FALSE]

\* A sentence with one quantified achievement; impact tells whether its context
\* holds one of '$', 'million', 'billion', '%', 'percent'.
Achievement(txt, keywords, verbs, impact) ==
    Line(txt, <<>>, <<>>, <<>>, keywords, verbs, <<[context |-> txt, impact |-> impact]>>)

\* experience_text.strip() is empty
IsBlankText(text) == \A i \in 1..Len(text) : text[i] = Blanks

RECURSIVE ExplicitMatches(_)
ExplicitMatches(text) ==
    IF text = <<>> THEN <<>> ELSE Head(text).explicit \o ExplicitMatches(Tail(text))

Min2(a, b) == IF a <= b THEN a ELSE b

\* A variant that keeps a number above 50 as 50.
RECURSIVE ExplicitOfPatternClamping(_, _)
ExplicitOfPatternClamping(matches, p) ==
    IF matches = <<>> THEN <<>>
    ELSE LET m == Head(matches)
         IN  (IF m[1] = p /\ 0 <= m[2] THEN <<Min2(m[2], 50)>> ELSE <<>>)
             \o ExplicitOfPatternClamping(Tail(matches), p)

\* re.findall(pattern p, text_lower), keeping the years with 0 <= years <= 50.
RECURSIVE ExplicitOfPattern(_, _)
ExplicitOfPattern(matches, p) ==
    IF matches = <<>> THEN <<>>
    ELSE LET m == Head(matches)
         IN  (IF m[1] = p /\ 0 <= m[2] /\ m[2] <= 50 THEN <<m[2]>> ELSE <<>>)
             \o ExplicitOfPattern(Tail(matches), p)

years_mentioned(text) ==
    ExplicitOfPattern(ExplicitMatches(text), 1)
    \o ExplicitOfPattern(ExplicitMatches(text), 2)
    \o ExplicitOfPattern(ExplicitMatches(text), 3)

RECURSIVE MaxOfSeq(_)
MaxOfSeq(s) ==
    IF Len(s) = 1 THEN s[1]
    ELSE LET m == MaxOfSeq(Tail(s)) IN IF Head(s) >= m THEN Head(s) ELSE m

\* A variant that asks the clock again for the patterns with a month, and finds
\* the next year there.
RangeOfMatchReadingClock(groups, current_year) ==
    LET n == Len(groups)
        s == IF n = 2 THEN groups[1] ELSE groups[2]
        e == IF n = 2 THEN groups[2] ELSE IF n = 4 THEN groups[4] ELSE groups[3]
        end_year == IF e.present THEN (IF n = 2 THEN current_year ELSE current_year + 1)
                    ELSE e.n
    IN  IF s.n <= end_year THEN << <<s.n, end_year>> >> ELSE <<>>

\* The (start_year, end_year) a match gives, by its number of groups; <<>> when the
\* range is dropped because start_year > end_year.
RangeOfMatch(groups, current_year) ==
    LET n == Len(groups)
        s == IF n = 2 THEN groups[1] ELSE groups[2]
        e == IF n = 2 THEN groups[2] ELSE IF n = 4 THEN groups[4] ELSE groups[3]
        end_year == IF e.present THEN current_year ELSE e.n
    IN  IF s.n <= end_year THEN << <<s.n, end_year>> >> ELSE <<>>

RECURSIVE DateMatches(_)
DateMatches(all_text) ==
    IF all_text = <<>> THEN <<>> ELSE Head(all_text).dates \o DateMatches(Tail(all_text))

\* re.finditer(DATE_PATTERNS[p - 1], all_text) and the ranges its matches append.
RECURSIVE DateRangesOfPattern(_, _, _)
DateRangesOfPattern(matches, p, current_year) ==
    IF matches = <<>> THEN <<>>
    ELSE (IF Head(matches)[1] = p THEN RangeOfMatch(Head(matches)[2], current_year) ELSE <<>>)
         \o DateRangesOfPattern(Tail(matches), p, current_year)

\* date_ranges: the six DATE_PATTERNS in turn over all_text.
date_ranges(all_text, current_year) ==
    LET ms == DateMatches(all_text)
    IN  DateRangesOfPattern(ms, 1, current_year) \o DateRangesOfPattern(ms, 2, current_year)
        \o DateRangesOfPattern(ms, 3, current_year) \o DateRangesOfPattern(ms, 4, current_year)
        \o DateRangesOfPattern(ms, 5, current_year) \o DateRangesOfPattern(ms, 6, current_year)

\* Tuple order of (start, end) pairs.
PairLe(a, b) == a[1] < b[1] \/ (a[1] = b[1] /\ a[2] <= b[2])

RECURSIVE InsertSorted(_, _)
InsertSorted(x, s) ==
    IF s = <<>> THEN <<x>>
    ELSE IF PairLe(x, Head(s)) THEN <<x>> \o s
    ELSE <<Head(s)>> \o InsertSorted(x, Tail(s))

RECURSIVE SortRanges(_)
SortRanges(s) == IF s = <<>> THEN <<>> ELSE InsertSorted(Head(s), SortRanges(Tail(s)))

\* The ranges left in the order of detection.
NoSort(s) == s

\* date_ranges.sort()
sort_date_ranges(s) == SortRanges(s)

\* The merge loop over the sorted ranges.
RECURSIVE MergeRanges(_, _)
MergeRanges(merged, rest) ==
    IF rest = <<>> THEN merged
    ELSE LET r == Head(rest)
             k == Len(merged)
         IN  IF merged = <<>> \/ r[1] > merged[k][2]
             THEN MergeRanges(Append(merged, r), Tail(rest))
             ELSE MergeRanges([merged EXCEPT ![k] =
                                  <<merged[k][1], IF merged[k][2] >= r[2] THEN merged[k][2] ELSE r[2]>>],
                              Tail(rest))

RECURSIVE SumSpans(_)
SumSpans(s) == IF s = <<>> THEN 0 ELSE (Head(s)[2] - Head(s)[1]) + SumSpans(Tail(s))

\* sum(end - start) over the merged ranges.
merged_total(ranges) == SumSpans(MergeRanges(<<>>, sort_date_ranges(ranges)))

\* A duration that always runs the date-range analysis.
DurationIgnoringExplicit(text, date_entities, current_year) ==
    LET ranges == date_ranges(text \o date_entities, current_year)
        total_years == IF ranges # <<>> THEN merged_total(ranges) ELSE 0
    IN  IF total_years < 50 THEN total_years ELSE 50

_calculate_experience_duration(text, date_entities, current_year) ==
    IF years_mentioned(text) # <<>>
    THEN MaxOfSeq(years_mentioned(text))
    ELSE LET ranges == date_ranges(text \o date_entities, current_year)
             total_years == IF ranges # <<>> THEN merged_total(ranges) ELSE 0
         IN  IF total_years < 50 THEN total_years ELSE 50

\* level, score, keywords, in the dict's insertion order.
SENIORITY_MAPPING ==
    << <<"intern", 10, <<"intern", "trainee", "apprentice", "student">> >>,
       <<"junior", 25, <<"junior", "entry", "associate", "graduate", "fresher">> >>,
       <<"mid", 50, <<"engineer", "developer", "analyst", "specialist", "consultant">> >>,
       <<"senior", 75, <<"senior", "sr", "lead", "principal", "staff">> >>,
       <<"executive", 90, <<"manager", "director", "vp", "vice president", "head",
                            "chief", "cto", "ceo", "architect">> >> >>

\* level.capitalize()
Capitalize(level) ==
    CASE level = "intern" -> "Intern"
      [] level = "junior" -> "Junior"
      [] level = "mid" -> "Mid"
      [] level = "senior" -> "Senior"
      [] level = "executive" -> "Executive"

\* keyword in all_titles: the keyword is a substring of a job title or of the text.
KeywordIn(keyword, lines) == \E i \in 1..Len(lines) : keyword \in lines[i].keywords

\* The (level, keyword) pairs of SENIORITY_MAPPING in iteration order.
SeniorityScan ==
    LET OfLevel(t) == [k \in 1..Len(t[3]) |-> <<t[1], t[2], t[3][k]>>]
        f[i \in 0..Len(SENIORITY_MAPPING)] ==
            IF i = 0 THEN <<>> ELSE f[i - 1] \o OfLevel(SENIORITY_MAPPING[i])
    IN  f[Len(SENIORITY_MAPPING)]

\* A loop that keeps the level of the first keyword found.
RECURSIVE SeniorityLoopFirstMatch(_, _, _, _)
SeniorityLoopFirstMatch(scan, all_titles, max_score, level) ==
    IF scan = <<>> THEN level
    ELSE LET e == Head(scan)
         IN  IF KeywordIn(e[3], all_titles) /\ max_score = 0
             THEN SeniorityLoopFirstMatch(Tail(scan), all_titles, e[2], Capitalize(e[1]))
             ELSE SeniorityLoopFirstMatch(Tail(scan), all_titles, max_score, level)

\* The loop's (max_seniority_score, seniority_level) after the whole scan.
RECURSIVE SeniorityLoop(_, _, _, _)
SeniorityLoop(scan, all_titles, max_score, level) ==
    IF scan = <<>> THEN level
    ELSE LET e == Head(scan)
         IN  IF KeywordIn(e[3], all_titles) /\ e[2] > max_score
             THEN SeniorityLoop(Tail(scan), all_titles, e[2], Capitalize(e[1]))
             ELSE SeniorityLoop(Tail(scan), all_titles, max_score, level)

\* re.findall(r'\b[^.]*keyword[^.]*\b', text): the sentences holding the keyword,
\* kept when shorter than 100 characters.
RECURSIVE RolesOfKeyword(_, _)
RolesOfKeyword(keyword, text) ==
    IF text = <<>> THEN <<>>
    ELSE (IF keyword \in Head(text).keywords /\ Head(text).short
          THEN <<Head(text).txt>> ELSE <<>>)
         \o RolesOfKeyword(keyword, Tail(text))

RECURSIVE RolesLoop(_, _, _)
RolesLoop(scan, all_titles, text) ==
    IF scan = <<>> THEN <<>>
    ELSE (IF KeywordIn(Head(scan)[3], all_titles)
          THEN RolesOfKeyword(Head(scan)[3], text) ELSE <<>>)
         \o RolesLoop(Tail(scan), all_titles, text)

\* list(dict.fromkeys(s))
RECURSIVE Dedup(_, _)
Dedup(s, seen) ==
    IF s = <<>> THEN <<>>
    ELSE IF Head(s) \in seen THEN Dedup(Tail(s), seen)
    ELSE <<Head(s)>> \o Dedup(Tail(s), seen \cup {Head(s)})

_analyze_role_seniority(text, job_titles) ==
    LET all_titles == job_titles \o text
    IN  [seniority_level |-> SeniorityLoop(SeniorityScan, all_titles, 0, "Entry"),
         detected_roles |-> Take(Dedup(RolesLoop(SeniorityScan, all_titles, text), {}), 5)]

RECURSIVE AchievementsOf(_)
AchievementsOf(text) ==
    IF text = <<>> THEN <<>> ELSE Head(text).achievements \o AchievementsOf(Tail(text))

RECURSIVE ImpactCount(_)
ImpactCount(achievements) ==
    IF achievements = <<>> THEN 0
    ELSE (IF Head(achievements).impact THEN 1 ELSE 0) + ImpactCount(Tail(achievements))

RECURSIVE Contexts(_)
Contexts(achievements) ==
    IF achievements = <<>> THEN <<>>
    ELSE <<Head(achievements).context>> \o Contexts(Tail(achievements))

_detect_achievements(text) ==
    LET achievements == AchievementsOf(text)
        base_score == Min2(Len(achievements) * 15, 60)
        high_impact_bonus == 10 * ImpactCount(achievements)
    IN  [achievement_score |-> IF achievements = <<>> THEN 0
                               ELSE Min2(base_score + high_impact_bonus, 100),
         quantified_achievements |-> Take(Dedup(Contexts(achievements), {}), 10)]

RECURSIVE CountStrong(_)
CountStrong(text) == IF text = <<>> THEN 0 ELSE Head(text).strong + CountStrong(Tail(text))

RECURSIVE CountWeak(_)
CountWeak(text) == IF text = <<>> THEN 0 ELSE Head(text).weak + CountWeak(Tail(text))

_analyze_verb_strength(text) ==
    [strong_verbs_count |-> CountStrong(text), weak_verbs_count |-> CountWeak(text)]

seniority_mapping(seniority) ==
    CASE seniority = "Intern" -> 5
      [] seniority = "Junior" -> 10
      [] seniority = "Mid" -> 15
      [] seniority = "Senior" -> 20
      [] seniority = "Executive" -> 25
      [] seniority = "Entry" -> 8
      [] OTHER -> 8

\* A score that rounds the sum to the nearest integer.
ExperienceScoreRounding(years, seniority, achievement_score, strong_verbs, weak_verbs) ==
    LET duration_score == Min2(years * 3, 40)
        seniority_score == seniority_mapping(seniority)
        achievement_weight == RMin(Frac(achievement_score, 4), R(25))
        verb_score ==
            IF strong_verbs + weak_verbs > 0
            THEN RMin(RAdd(Frac(strong_verbs * 10, strong_verbs + weak_verbs),
                           R(Min2(strong_verbs, 5))), R(10))
            ELSE R(0)
        total_score == PyRound(RAdd(RAdd(R(duration_score + seniority_score),
                                         achievement_weight), verb_score))
    IN  Min2(total_score, 100)

_calculate_experience_score(years, seniority, achievement_score, strong_verbs, weak_verbs) ==
    LET duration_score == Min2(years * 3, 40)
        seniority_score == seniority_mapping(seniority)
        achievement_weight == RMin(Frac(achievement_score, 4), R(25))
        verb_score ==
            IF strong_verbs + weak_verbs > 0
            THEN RMin(RAdd(Frac(strong_verbs * 10, strong_verbs + weak_verbs),
                           R(Min2(strong_verbs, 5))), R(10))
            ELSE R(0)
        total_score == Trunc(RAdd(RAdd(R(duration_score + seniority_score),
                                       achievement_weight), verb_score))
    IN  Min2(total_score, 100)

\* The response of the early return for blank text and of the except branch.
ExperienceDefaults(path) ==
    [status |-> "ok", total_experience_years |-> 0, seniority_level |-> "Entry",
     achievement_score |-> 0, experience_strength_score |-> 0,
     detected_roles |-> <<>>, quantified_achievements |-> <<>>,
     strong_verbs_count |-> 0, weak_verbs_count |-> 0, path |-> path]

\* A variant without the early return for blank text.
AnalyzeWithoutBlankGuard(experience_text, entities, current_year) ==
    IF entities = None THEN ExperienceDefaults("except")  \* entities.get raises
    ELSE
    LET total_years == _calculate_experience_duration(experience_text, entities.dates,
                                                      current_year)
        seniority == _analyze_role_seniority(experience_text, entities.job_titles)
        ach == _detect_achievements(experience_text)
        verbs == _analyze_verb_strength(experience_text)
    IN  [status |-> "ok", total_experience_years |-> total_years,
         seniority_level |-> seniority.seniority_level,
         achievement_score |-> ach.achievement_score,
         experience_strength_score |->
             _calculate_experience_score(total_years, seniority.seniority_level,
                 ach.achievement_score, verbs.strong_verbs_count, verbs.weak_verbs_count),
         detected_roles |-> seniority.detected_roles,
         quantified_achievements |-> ach.quantified_achievements,
         strong_verbs_count |-> verbs.strong_verbs_count,
         weak_verbs_count |-> verbs.weak_verbs_count, path |-> "try"]

analyze_experience(experience_text, entities, current_year) ==
    IF IsBlankText(experience_text) THEN ExperienceDefaults("blank")
    ELSE IF entities = None THEN ExperienceDefaults("except")  \* entities.get raises
    ELSE
    LET total_years == _calculate_experience_duration(experience_text, entities.dates,
                                                      current_year)
        seniority == _analyze_role_seniority(experience_text, entities.job_titles)
        ach == _detect_achievements(experience_text)
        verbs == _analyze_verb_strength(experience_text)
    IN  [status |-> "ok", total_experience_years |-> total_years,
         seniority_level |-> seniority.seniority_level,
         achievement_score |-> ach.achievement_score,
         experience_strength_score |->
             _calculate_experience_score(total_years, seniority.seniority_level,
                 ach.achievement_score, verbs.strong_verbs_count, verbs.weak_verbs_count),
         detected_roles |-> seniority.detected_roles,
         quantified_achievements |-> ach.quantified_achievements,
         strong_verbs_count |-> verbs.strong_verbs_count,
         weak_verbs_count |-> verbs.weak_verbs_count, path |-> "try"]

(***************************************************************************)
(* Arguments of analyze_experience.                                        *)
(***************************************************************************)
MaxLines == 3
MaxDateEntities == 1

ExperienceLineInputs ==
    {YearsOfExperience("5 years of experience", 5),
     YearsIn("3 years in sales", 3),
     YearsOfExperience("60 years of experience", 60),
     YearToYear("2018-2020", 2018, 2020),
     YearToYear("2019 - 2022", 2019, 2022),
     MonthToPresent("Jan 2024 - Present", 2024),
     SlashToSlash("03/1960 - 06/2015", 3, 1960, 6, 2015),
     YearToYear("2022-2019", 2022, 2019),
     SlashToPresent("06/2021 - Present", 6, 2021),
     Words("Senior Engineer led the team", {"senior", "engineer"}, <<1, 0>>),
     Blanks}

\* DATE entity strings.
DateEntityInputs ==
    {YearToYear("2016-2019", 2016, 2019),
     YearToPresent("2027 - Present", 2027),
     Words("March 2019", {}, <<0, 0>>)}

JobTitleInputs ==
    {<<>>,
     <<Words("Junior Analyst", {"junior", "analyst"}, <<0, 0>>)>>,
     <<Words("Intern", {"intern"}, <<0, 0>>)>>,
     <<Words("Director", {"director", "cto"}, <<0, 0>>),
       Words("Trainee", {"trainee"}, <<0, 0>>)>>}

EntityInputs ==
    [dates : SeqsUpTo(DateEntityInputs, MaxDateEntities), job_titles : JobTitleInputs]
    \cup {None}

\* datetime.now().year at the call.
NowInputs == {2026}

ExperienceRequests ==
    [status : {"called"}, experience_text : SeqsUpTo(ExperienceLineInputs, MaxLines),
     entities : EntityInputs, now : NowInputs]

\* The clock during a call that starts in the year now: it shows now at the
\* first read, and now or the next year at a later one.
ClockRuns(now) == {<<now, now>>, <<now, now + 1>>}

\* The call reads the clock once, current_year = datetime.now().year in
\* _calculate_experience_duration, whatever the clock shows later.
AnalyzeExperience ==
    /\ expReq # None
    /\ expResp = None
    /\ \E clock \in ClockRuns(expReq.now) :
          /\ expClock' = clock
          /\ expResp' = analyze_experience(expReq.experience_text, expReq.entities, clock[1])
    /\ UNCHANGED <<expReq, scoreReq, scoreResp, parseReq, parseResp, skillReq, skillResp, reportVars, entityVars, pipelineVars, tableVars, sectionVars, strengthVars>>

InitExperience ==
    /\ expReq \in ExperienceRequests /\ expResp = None
    /\ scoreReq = None /\ scoreResp = None
    /\ parseReq = None /\ parseResp = None
    /\ skillReq = None /\ skillResp = None
    /\ ReportIdle
    /\ EntityIdle
    /\ PipelineIdle
    /\ TableIdle
    /\ SectionCallsIdle
    /\ StrengthIdle
    /\ ClockIdle

NextExperience == AnalyzeExperience

SpecExperience == InitExperience /\ [][NextExperience]_vars

(***************************************************************************)
(* Properties of ExperienceAnalysisService.                                *)
(***************************************************************************)
\* The call reached the duration calculation.
DurationComputed == expResp # None /\ expResp.path = "try"

\* The lines the call scans for date ranges: the text and the date entities.
ScannedLines == expReq.experience_text \o expReq.entities.dates

\* The explicit mentions of a text whose number of years is in range.
MentionedIn(text) ==
    UNION {{text[i].explicit[k][2] : k \in 1..Len(text[i].explicit)} : i \in 1..Len(text)}
    \cap 0..50

\* The date ranges the scanned lines denote, with "present" read as the call's
\* current year, that do not end before they start.
SpansOf(lines, now) ==
    LET End(l) == IF l.span[2].present THEN now ELSE l.span[2].n
    IN  {<<lines[i].span[1].n, End(lines[i])>> :
            i \in {j \in 1..Len(lines) :
                     /\ lines[j].span # <<>>
                     /\ lines[j].span[1].n <= End(lines[j])}}

\* The number of years covered by at least one of the spans.
UnionLength(spans) ==
    LET starts == {r[1] : r \in spans}
        ends == {r[2] : r \in spans}
        lo == CHOOSE a \in starts : \A b \in starts : a <= b
        hi == CHOOSE a \in ends : \A b \in ends : a >= b
    IN  IF spans = {} THEN 0
        ELSE Cardinality({y \in lo..(hi - 1) : \E r \in spans : r[1] <= y /\ y < r[2]})

\* C4: without an explicit mention in range, total_experience_years is the length
\* of the union of the date ranges of the text and the date entities that have
\* start <= end, capped at 50; it is a function of the set of those ranges, so
\* neither their order nor their repetition changes it.
C4_DurationIsUnionOfRanges ==
    (DurationComputed /\ MentionedIn(expReq.experience_text) = {}) =>
        expResp.total_experience_years =
            Min2(UnionLength(SpansOf(ScannedLines, expReq.now)), 50)

\* 2019-2022 written before 2018-2020: four years, not five and not three.
C4_Witness ==
    /\ DurationComputed
    /\ Len(expReq.experience_text) = 2
    /\ expReq.experience_text[1].txt = "2019 - 2022"
    /\ expReq.experience_text[2].txt = "2018-2020"
    /\ expReq.entities.dates = <<>>
    /\ expResp.total_experience_years = 4

\* C5: with an explicit mention in range, total_experience_years is the largest
\* mentioned number, whatever date ranges the text and the date entities hold.
C5_ExplicitMentionWins ==
    (DurationComputed /\ MentionedIn(expReq.experience_text) # {}) =>
        /\ expResp.total_experience_years \in MentionedIn(expReq.experience_text)
        /\ \A n \in MentionedIn(expReq.experience_text) :
              n <= expResp.total_experience_years

C5_Witness ==
    /\ DurationComputed
    /\ \E i \in 1..Len(expReq.experience_text) :
          expReq.experience_text[i].txt = "5 years of experience"
    /\ \E i \in 1..Len(expReq.experience_text) :
          expReq.experience_text[i].txt = "03/1960 - 06/2015"
    /\ expReq.entities.dates # <<>>
    /\ expResp.total_experience_years = 5

\* The numbers above 50 among the explicit mentions of a text.
OutOfRangeIn(text) ==
    UNION {{text[i].explicit[k][2] : k \in 1..Len(text[i].explicit)} : i \in 1..Len(text)}
    \ (0..50)

\* C24: an explicit mention of more than 50 years is discarded, not clamped and
\* kept: with other mentions in range the result is the largest of those, so the
\* discarded number does not enter the maximum, and when no mention is in range
\* the result is the one of the date-range analysis.
C24_OutOfRangeMentionIsDiscarded ==
    (DurationComputed /\ OutOfRangeIn(expReq.experience_text) # {}) =>
        IF MentionedIn(expReq.experience_text) # {}
        THEN /\ expResp.total_experience_years \in MentionedIn(expReq.experience_text)
             /\ \A n \in MentionedIn(expReq.experience_text) :
                   n <= expResp.total_experience_years
        ELSE expResp.total_experience_years =
                 Min2(UnionLength(SpansOf(ScannedLines, expReq.now)), 50)

\* "60 years of experience" as the only mention, next to 2018-2020: two years.
C24_Witness ==
    /\ DurationComputed
    /\ OutOfRangeIn(expReq.experience_text) = {60}
    /\ MentionedIn(expReq.experience_text) = {}
    /\ \E i \in 1..Len(expReq.experience_text) :
          expReq.experience_text[i].txt = "2018-2020"
    /\ expReq.entities.dates = <<>>
    /\ expResp.total_experience_years = 2

\* The lines the call scans for seniority keywords: the job titles and the text.
TitleLines == expReq.entities.job_titles \o expReq.experience_text

\* The tiers, by their capitalized names, and their scores.
TierScore ==
    [Intern |-> 10, Junior |-> 25, Mid |-> 50, Senior |-> 75, Executive |-> 90]

\* The tiers with at least one keyword occurring in one of the lines.
MatchedTiers(lines) ==
    {Capitalize(SENIORITY_MAPPING[t][1]) :
        t \in {u \in 1..Len(SENIORITY_MAPPING) :
                 \E k \in 1..Len(SENIORITY_MAPPING[u][3]) : \E i \in 1..Len(lines) :
                     SENIORITY_MAPPING[u][3][k] \in lines[i].keywords}}

\* C25: seniority_level is the capitalized name of the highest-scoring tier among
\* the tiers with a keyword occurring in the experience text or the job titles,
\* whatever the order of the lines; it is 'Entry' exactly when no tier has one.
C25_SeniorityIsHighestMatchedTier ==
    DurationComputed =>
        /\ (expResp.seniority_level = "Entry") = (MatchedTiers(TitleLines) = {})
        /\ MatchedTiers(TitleLines) # {} =>
              /\ expResp.seniority_level \in MatchedTiers(TitleLines)
              /\ \A t \in MatchedTiers(TitleLines) :
                    TierScore[t] <= TierScore[expResp.seniority_level]

\* The titles Director and Trainee with a senior engineer in the text: Executive
\* from 'director', with the Intern, Mid and Senior tiers matched too.
C25_Witness ==
    /\ DurationComputed
    /\ MatchedTiers(TitleLines) = {"Intern", "Mid", "Senior", "Executive"}
    /\ expResp.seniority_level = "Executive"

\* The years the clock showed while the call ran.
ClockYears == {expClock[i] : i \in 1..Len(expClock)}

\* The scanned lines hold a date range that ends with "present".
HasPresentRange(lines) ==
    \E i \in 1..Len(lines) : lines[i].span # <<>> /\ lines[i].span[2].present

\* The fields of a response that the duration does not enter.
FieldsBesideDuration(r) ==
    <<r.seniority_level, r.achievement_score, r.detected_roles,
      r.quantified_achievements, r.strong_verbs_count, r.weak_verbs_count, r.path>>

\* C27: the call samples the current year once, at its first reading of the
\* clock, and every 'present' end resolves to that year, also when the clock
\* shows the next year at a later reading; the clock enters the result nowhere
\* else: for any year of the clock the other fields are the same, the strength
\* score differs only with the duration, and without a 'present' range or with
\* an explicit mention in range the whole result is the same.
C27_PresentResolvesToOneSampledYear ==
    DurationComputed =>
        /\ MentionedIn(expReq.experience_text) = {} =>
              expResp.total_experience_years =
                  Min2(UnionLength(SpansOf(ScannedLines, expClock[1])), 50)
        /\ \A y \in ClockYears :
              LET r == analyze_experience(expReq.experience_text, expReq.entities, y)
              IN  /\ FieldsBesideDuration(r) = FieldsBesideDuration(expResp)
                  /\ r.total_experience_years = expResp.total_experience_years =>
                        r = expResp
                  /\ (~HasPresentRange(ScannedLines)
                       \/ MentionedIn(expReq.experience_text) # {}) => r = expResp

\* The year turns after the first reading; 06/2021 - Present and Jan 2024 -
\* Present both end in the sampled year: five years.
C27_Witness ==
    /\ DurationComputed
    /\ expClock[2] # expClock[1]
    /\ MentionedIn(expReq.experience_text) = {}
    /\ \E i \in 1..Len(expReq.experience_text) :
          expReq.experience_text[i].txt = "06/2021 - Present"
    /\ \E i \in 1..Len(expReq.experience_text) :
          expReq.experience_text[i].txt = "Jan 2024 - Present"
    /\ expReq.entities.dates = <<>>
    /\ expResp.total_experience_years = expClock[1] - 2021

(***************************************************************************)
(* Direct calls of _calculate_experience_score.                            *)
(***************************************************************************)
MaxVerbs == 6

\* Durations up to the first one that reaches the 40 points, and the longest.
YearsInputs == 0..15 \cup {50}

SeniorityInputs == {"Intern", "Junior", "Mid", "Senior", "Executive", "Entry"}

\* The multiples of 5 that _detect_achievements returns, and values between.
AchievementScoreInputs == {5 * k : k \in 0..20} \cup {1, 2, 3, 99}

StrengthRequests ==
    [status : {"called"}, years : YearsInputs, seniority : SeniorityInputs,
     achievement_score : AchievementScoreInputs,
     strong_verbs : 0..MaxVerbs, weak_verbs : 0..MaxVerbs]

CalculateExperienceScore ==
    /\ strengthReq # None
    /\ strengthResp = None
    /\ strengthResp' =
          [status |-> "ok",
           score |-> _calculate_experience_score(strengthReq.years, strengthReq.seniority,
                         strengthReq.achievement_score, strengthReq.strong_verbs,
                         strengthReq.weak_verbs)]
    /\ UNCHANGED <<strengthReq, scoreReq, scoreResp, expReq, expResp, parseReq, parseResp, skillReq, skillResp, reportVars, entityVars, pipelineVars, tableVars, sectionVars, clockVars>>

InitExperienceScore ==
    /\ strengthReq \in StrengthRequests /\ strengthResp = None
    /\ scoreReq = None /\ scoreResp = None
    /\ expReq = None /\ expResp = None
    /\ parseReq = None /\ parseResp = None
    /\ skillReq = None /\ skillResp = None
    /\ ReportIdle
    /\ EntityIdle
    /\ PipelineIdle
    /\ TableIdle
    /\ SectionCallsIdle
    /\ ClockIdle

NextExperienceScore == CalculateExperienceScore

SpecExperienceScore == InitExperienceScore /\ [][NextExperienceScore]_vars

StrengthReturned == strengthResp # None

\* The seniority points the sentence names.
SeniorityPoints ==
    [Intern |-> 5, Junior |-> 10, Mid |-> 15, Senior |-> 20, Executive |-> 25, Entry |-> 8]

\* The sum of the four components as a fraction over 4 * (strong + weak), or over
\* 4 when no verb was counted: <<numerator, denominator>>.
StrengthSum(years, seniority, achievement_score, strong, weak) ==
    LET v == strong + weak
        n == IF v > 0 THEN v ELSE 1
        whole == Min2(3 * years, 40) + SeniorityPoints[seniority]
        verbs == IF v > 0 THEN Min2(10 * strong + Min2(strong, 5) * v, 10 * v) ELSE 0
    IN  <<4 * n * whole + n * Min2(achievement_score, 100) + 4 * verbs, 4 * n>>

\* C26: experience_strength_score is min(100, trunc(min(3 * years, 40) + seniority
\* points + min(achievement_score / 4, 25) + verb component)), the verb component
\* being min(10 * strong / (strong + weak) + min(strong, 5), 10) when a verb was
\* counted and 0 otherwise; it lies in 5..100.
C26_StrengthScoreFormulaAndRange ==
    StrengthReturned =>
        LET sum == StrengthSum(strengthReq.years, strengthReq.seniority,
                               strengthReq.achievement_score, strengthReq.strong_verbs,
                               strengthReq.weak_verbs)
        IN  /\ strengthResp.score = Min2(sum[1] \div sum[2], 100)
            /\ strengthResp.score \in 5..100

\* 3 + 15 + 3.75 + (10/3 + 1) = 26.08..., truncated to 26.
C26_Witness ==
    /\ StrengthReturned
    /\ strengthReq.years = 1 /\ strengthReq.seniority = "Mid"
    /\ strengthReq.achievement_score = 15
    /\ strengthReq.strong_verbs = 1 /\ strengthReq.weak_verbs = 2
    /\ strengthResp.score = 26

\* The experience text is empty or holds white space only.
OnlyWhitespace(text) ==
    \A i \in 1..Len(text) :
        \A k \in 1..Len(text[i].txt) : SubSeq(text[i].txt, k, k) = " "

BlankTextAnalyzed == expResp # None /\ OnlyWhitespace(expReq.experience_text)

\* C14: for empty or white-space-only experience text the call returns, without
\* an error, 0 years, seniority 'Entry', both scores 0, no roles, no achievements
\* and zero verb counts, whatever the entities hold.
C14_BlankTextReturnsDefaults ==
    BlankTextAnalyzed =>
        /\ expResp.path = "blank"
        /\ expResp.total_experience_years = 0
        /\ expResp.seniority_level = "Entry"
        /\ expResp.achievement_score = 0
        /\ expResp.experience_strength_score = 0
        /\ expResp.detected_roles = <<>>
        /\ expResp.quantified_achievements = <<>>
        /\ expResp.strong_verbs_count = 0
        /\ expResp.weak_verbs_count = 0

C14_Witness ==
    /\ BlankTextAnalyzed
    /\ Len(expReq.experience_text) = 2
    /\ expReq.entities # None
    /\ expReq.entities.dates # <<>>
    /\ expReq.entities.dates[1].txt = "2016-2019"
    /\ expReq.entities.job_titles # <<>>

(***************************************************************************)
(* Python str operations on the resume text.  A text is a TLA+ string;     *)
(* Char(s, i) is its i-th character (1-based).                             *)
(***************************************************************************)
Char(s, i) == SubSeq(s, i, i)

UpperLetters == "ABCDEFGHIJKLMNOPQRSTUVWXYZ"

LowerLetters == "abcdefghijklmnopqrstuvwxyz"

DigitChars == "0123456789"

Upper == {Char(UpperLetters, i) : i \in 1..Len(UpperLetters)}

Lower == {Char(LowerLetters, i) : i \in 1..Len(LowerLetters)}

\* The characters the regex class \s and str.strip() take for white space.
Whitespace == {" ", "\t", "\n", "\r"}

\* The characters of the regex class \w.
WordChars == Upper \cup Lower \cup {Char(DigitChars, i) : i \in 1..Len(DigitChars)} \cup {"_"}

LowerChar(c) ==
    IF c \in Upper
    THEN Char(LowerLetters, CHOOSE i \in 1..Len(UpperLetters) : Char(UpperLetters, i) = c)
    ELSE c

\* str.lower()
RECURSIVE lower(_)
lower(s) ==
    IF Len(s) <= 1 THEN LowerChar(s)
    ELSE lower(SubSeq(s, 1, Len(s) \div 2)) \o lower(SubSeq(s, (Len(s) \div 2) + 1, Len(s)))

RECURSIVE lstrip(_)
lstrip(s) == IF s # "" /\ Char(s, 1) \in Whitespace THEN lstrip(Tail(s)) ELSE s

RECURSIVE rstrip(_)
rstrip(s) ==
    IF s # "" /\ Char(s, Len(s)) \in Whitespace
    THEN rstrip(SubSeq(s, 1, Len(s) - 1))
    ELSE s

\* str.strip()
strip(s) == rstrip(lstrip(s))

\* keyword in s
Contains(keyword, s) ==
    \E i \in 1..(Len(s) - Len(keyword) + 1) : SubSeq(s, i, i + Len(keyword) - 1) = keyword

\* re.search(r'\b' + re.escape(keyword) + r'\b', s)
WordBoundaryAt(s, i) ==
    LET before == i > 1 /\ Char(s, i - 1) \in WordChars
        after == i <= Len(s) /\ Char(s, i) \in WordChars
    IN  before # after

SearchWord(keyword, s) ==
    \E i \in 1..(Len(s) - Len(keyword) + 1) :
        /\ SubSeq(s, i, i + Len(keyword) - 1) = keyword
        /\ WordBoundaryAt(s, i)
        /\ WordBoundaryAt(s, i + Len(keyword))

\* The last index of the run of characters of the class that starts at i
\* (i - 1 when the character at i is not of the class).
RunEnd(s, i, class) ==
    LET stops == {j \in i..Len(s) : Char(s, j) \notin class}
    IN  IF stops = {} THEN Len(s)
        ELSE (CHOOSE j \in stops : \A k \in stops : j <= k) - 1

\* re.sub(r'[class]+', repl, s), from index i on
RECURSIVE SubRuns(_, _, _, _)
SubRuns(s, i, class, repl) ==
    IF i > Len(s) THEN ""
    ELSE IF Char(s, i) \in class
         THEN repl \o SubRuns(s, RunEnd(s, i, class) + 1, class, repl)
         ELSE Char(s, i) \o SubRuns(s, i + 1, class, repl)

NewlinesIn(s, i, j) == Cardinality({k \in i..j : Char(s, k) = "\n"})

LastNewline(s, i, j) ==
    CHOOSE k \in i..j : Char(s, k) = "\n" /\ \A m \in (k + 1)..j : Char(s, m) # "\n"

\* re.sub(r'\n\s*\n\s*\n+', '\n\n', s), from index i on: a match starts at a
\* newline whose white-space run holds three newlines or more and ends at the
\* last newline of the run.
RECURSIVE SubLineBreakRuns(_, _)
SubLineBreakRuns(s, i) ==
    IF i > Len(s) THEN ""
    ELSE LET e == RunEnd(s, i, Whitespace)
         IN  IF Char(s, i) = "\n" /\ NewlinesIn(s, i, e) >= 3
             THEN "\n\n" \o SubLineBreakRuns(s, LastNewline(s, i, e) + 1)
             ELSE Char(s, i) \o SubLineBreakRuns(s, i + 1)

\* re.sub(r'\s*\n\s*', '\n', s), from index i on: a white-space run that holds
\* a newline is replaced as a whole.
RECURSIVE SubSpacesAroundLineBreaks(_, _)
SubSpacesAroundLineBreaks(s, i) ==
    IF i > Len(s) THEN ""
    ELSE LET e == RunEnd(s, i, Whitespace)
         IN  IF NewlinesIn(s, i, e) >= 1
             THEN "\n" \o SubSpacesAroundLineBreaks(s, e + 1)
             ELSE Char(s, i) \o SubSpacesAroundLineBreaks(s, i + 1)

FirstNewline(s) ==
    IF \E i \in 1..Len(s) : Char(s, i) = "\n"
    THEN CHOOSE i \in 1..Len(s) : Char(s, i) = "\n" /\ \A j \in 1..(i - 1) : Char(s, j) # "\n"
    ELSE 0

\* s.split('\n')
RECURSIVE split_newline(_)
split_newline(s) ==
    LET n == FirstNewline(s)
    IN  IF n = 0 THEN <<s>>
        ELSE <<SubSeq(s, 1, n - 1)>> \o split_newline(SubSeq(s, n + 1, Len(s)))

\* '\n'.join(lines)
RECURSIVE join_newline(_)
join_newline(lines) ==
    IF lines = <<>> THEN ""
    ELSE IF Len(lines) = 1 THEN lines[1]
    ELSE lines[1] \o "\n" \o join_newline(Tail(lines))

\* len(s.split())
WordCount(s) ==
    Cardinality({i \in 1..Len(s) :
                    /\ Char(s, i) \notin Whitespace
                    /\ (i = 1 \/ Char(s, i - 1) \in Whitespace)})

AllIn(s, class) == \A i \in 1..Len(s) : Char(s, i) \in class

(***************************************************************************)
(* ResumeParsingService (parsing/service.py).                              *)
(***************************************************************************)
\* The table in iteration order: one <<section type, keyword>> per keyword.
RECURSIVE KeywordEntriesFrom(_, _)
KeywordEntriesFrom(table, t) ==
    IF t > Len(table) THEN <<>>
    ELSE [k \in 1..Len(table[t].keywords) |->
             [type |-> table[t].type, keyword |-> table[t].keywords[k]]]
         \o KeywordEntriesFrom(table, t + 1)

KeywordEntries(table) == KeywordEntriesFrom(table, 1)

SectionKeys == {"summary", "skills", "experience", "education", "projects", "certifications", "other"}

\* The three substitutions alone, without the blank test and the final strip.
NormalizeWithoutBlankGuard(text) ==
    SubSpacesAroundLineBreaks(SubLineBreakRuns(SubRuns(text, 1, Whitespace, " "), 1), 1)

_normalize_text(text) ==
    IF text = "" \/ strip(text) = "" THEN ""
    ELSE LET single_spaced == SubRuns(text, 1, Whitespace, " ")
             line_breaks == SubLineBreakRuns(single_spaced, 1)
             trimmed == SubSpacesAroundLineBreaks(line_breaks, 1)
         IN  strip(trimmed)

CapsHeadingChars == Upper \cup Whitespace \cup {"&", "/", "-", ":"}

TitleHeadingChars == Lower \cup CapsHeadingChars

RuleChars == {"*", "-", "=", "+"}

heading_patterns(line) ==
    \/ Len(line) >= 3 /\ AllIn(line, CapsHeadingChars)
    \/ line # "" /\ Char(line, 1) \in Upper /\ AllIn(Tail(line), TitleHeadingChars)
    \/ /\ Len(line) >= 4
       /\ AllIn(SubSeq(line, 1, 2), RuleChars)
       /\ AllIn(SubSeq(line, Len(line) - 1, Len(line)), RuleChars)
    \/ Len(line) >= 3 /\ AllIn(line, Upper)

_is_potential_heading(rawline, entries) ==
    LET line == strip(rawline)
    IN  \/ heading_patterns(line)
        \/ /\ WordCount(line) <= 4
           /\ \E e \in 1..Len(entries) : Contains(entries[e].keyword, lower(line))

FormattingChars == {":", "-", "*", "=", "+"} \cup Whitespace

KeywordMatches(keyword, heading_clean) ==
    \/ keyword = heading_clean
    \/ Contains(keyword, heading_clean)
    \/ SearchWord(keyword, heading_clean)

\* The section type as a sequence of one element, or <<>> for None.
_classify_section(heading, entries) ==
    LET heading_lower == strip(lower(heading))
        heading_clean == strip(SubRuns(heading_lower, 1, FormattingChars, " "))
        hits == {e \in 1..Len(entries) :
                    KeywordMatches(entries[e].keyword, heading_clean)}
    IN  IF hits = {} THEN <<>>
        ELSE <<entries[CHOOSE e \in hits : \A f \in hits : e <= f].type>>

\* The boundaries found in lines[line_idx ..], as <<section_type, line_idx>>
\* with line_idx counted from 0 as in the code.
RECURSIVE BoundariesFrom(_, _, _)
BoundariesFrom(lines, line_idx, entries) ==
    IF line_idx >= Len(lines) THEN <<>>
    ELSE LET line_clean == strip(lines[line_idx + 1])
             section_type == _classify_section(line_clean, entries)
             here == IF /\ Len(line_clean) >= 3
                        /\ _is_potential_heading(line_clean, entries)
                        /\ section_type # <<>>
                     THEN << <<section_type[1], line_idx>> >>
                     ELSE <<>>
         IN  here \o BoundariesFrom(lines, line_idx + 1, entries)

_find_section_boundaries(lines, entries) == BoundariesFrom(lines, 0, entries)

EmptySections == [k \in SectionKeys |-> ""]

\* A variant of the extraction loop that appends the content of a later heading
\* of the same section to the content of the earlier one.
RECURSIVE ExtractLoopAppending(_, _, _, _)
ExtractLoopAppending(sections, lines, section_boundaries, i) ==
    IF i > Len(section_boundaries) THEN sections
    ELSE LET section_type == section_boundaries[i][1]
             start_line == section_boundaries[i][2]
             end_line == IF i + 1 <= Len(section_boundaries)
                         THEN section_boundaries[i + 1][2]
                         ELSE Len(lines)
             section_content == strip(join_newline(SubSeq(lines, start_line + 2, end_line)))
             updated ==
                IF section_content = "" THEN sections
                ELSE [sections EXCEPT ![section_type] =
                         IF @ # "" THEN @ \o "\n\n" \o section_content
                         ELSE section_content]
         IN  ExtractLoopAppending(updated, lines, section_boundaries, i + 1)

RECURSIVE ExtractLoop(_, _, _, _)
ExtractLoop(sections, lines, section_boundaries, i) ==
    IF i > Len(section_boundaries) THEN sections
    ELSE LET section_type == section_boundaries[i][1]
             start_line == section_boundaries[i][2]
             end_line == IF i + 1 <= Len(section_boundaries)
                         THEN section_boundaries[i + 1][2]
                         ELSE Len(lines)
             section_content == strip(join_newline(SubSeq(lines, start_line + 2, end_line)))
             updated ==
                IF section_content = "" THEN sections
                ELSE IF section_type \in DOMAIN sections
                     THEN [sections EXCEPT ![section_type] = section_content]
                     ELSE [sections EXCEPT !["other"] =
                              IF @ # "" THEN @ \o "\n\n" \o section_content
                              ELSE section_content]
         IN  ExtractLoop(updated, lines, section_boundaries, i + 1)

_detect_and_extract_sections(text, entries) ==
    IF text = "" THEN EmptySections
    ELSE LET lines == split_newline(text)
             section_boundaries == _find_section_boundaries(lines, entries)
             sections == ExtractLoop(EmptySections, lines, section_boundaries, 1)
         IN  IF \A k \in DOMAIN sections : sections[k] = ""
             THEN [sections EXCEPT !["other"] = text]
             ELSE sections

\* sections.get(key, "")
Get(sections, key) == IF key \in DOMAIN sections THEN sections[key] ELSE ""

SectionsFound(sections) == Cardinality({k \in DOMAIN sections : strip(sections[k]) # ""})

ResumeParsingResponse(sections, processing_time) ==
    [status |-> "ok",
     summary |-> Get(sections, "summary"),
     skills |-> Get(sections, "skills"),
     experience |-> Get(sections, "experience"),
     education |-> Get(sections, "education"),
     projects |-> Get(sections, "projects"),
     certifications |-> Get(sections, "certifications"),
     other |-> Get(sections, "other"),
     sections_found |-> SectionsFound(sections),
     processing_time_seconds |-> Frac(PyRound(RMul(processing_time, R(1000))), 1000)]

split_resume_into_sections(text, processing_time, table) ==
    LET normalized_text == _normalize_text(text)
        sections == _detect_and_extract_sections(normalized_text, KeywordEntries(table))
    IN  ResumeParsingResponse(sections, processing_time)

(***************************************************************************)
(* Calls of split_resume_into_sections.                                    *)
(***************************************************************************)
MaxParseLines == 4

ParseLineInputs ==
    {"SKILLS", "Python, Java", "EXPERIENCE", "Engineer at Acme", "Work History:", "", "  "}

\* The texts of n lines.
TextsOfLines(n) == {join_newline(ls) : ls \in [1..n -> ParseLineInputs]}

TextInputs == UNION {TextsOfLines(n) : n \in 0..MaxParseLines}

\* time.time() - start_time, in seconds.
ElapsedInputs == {Frac(12, 100000), Frac(15, 10000)}

ParseRequests == [status : {"called"}, text : TextInputs]

SplitResumeIntoSections ==
    /\ parseReq # None
    /\ parseResp = None
    /\ \E processing_time \in ElapsedInputs :
          parseResp' = split_resume_into_sections(parseReq.text, processing_time,
                                                  TableOf(sectionKeywords, keywordLists))
    /\ UNCHANGED <<parseReq, scoreReq, scoreResp, expReq, expResp, skillReq, skillResp, reportVars, entityVars, pipelineVars, tableVars, sectionVars, strengthVars, clockVars>>

InitParsing ==
    /\ parseReq \in ParseRequests /\ parseResp = None
    /\ scoreReq = None /\ scoreResp = None
    /\ expReq = None /\ expResp = None
    /\ skillReq = None /\ skillResp = None
    /\ ReportIdle
    /\ EntityIdle
    /\ PipelineIdle
    /\ TableIdle
    /\ SectionCallsIdle
    /\ StrengthIdle
    /\ ClockIdle

NextParsing == SplitResumeIntoSections

SpecParsing == InitParsing /\ [][NextParsing]_vars

(***************************************************************************)
(* Properties of ResumeParsingService.                                     *)
(***************************************************************************)
ParseReturned == parseResp # None

\* The lines of the raw text and the recognized heading lines among them.
RawLines == split_newline(parseReq.text)

RawHeadings == _find_section_boundaries(RawLines, KeywordEntries(SECTION_KEYWORDS))

\* The content lines between the i-th recognized heading and the next one (or
\* the end of the text), without the white space around each and without the
\* blank ones.
RECURSIVE ContentLines(_)
ContentLines(lines) ==
    IF lines = <<>> THEN <<>>
    ELSE (IF strip(lines[1]) = "" THEN <<>> ELSE <<strip(lines[1])>>) \o ContentLines(Tail(lines))

ContentUnder(i) ==
    LET start_line == RawHeadings[i][2]
        end_line == IF i < Len(RawHeadings) THEN RawHeadings[i + 1][2] ELSE Len(RawLines)
    IN  join_newline(ContentLines(SubSeq(RawLines, start_line + 2, end_line)))

OnlyHeadingOfItsSection(i) ==
    \A j \in 1..Len(RawHeadings) : RawHeadings[j][1] = RawHeadings[i][1] => j = i

\* C6: the content between a recognized heading line and the next heading is
\* returned as the text of that heading's section.
C6_HeadingContentBecomesSection ==
    ParseReturned =>
        \A i \in 1..Len(RawHeadings) :
            (OnlyHeadingOfItsSection(i) /\ ContentUnder(i) # "") =>
                parseResp[RawHeadings[i][1]] = ContentUnder(i)

\* C7: every call returns, its result has the 7 section keys, and for an empty
\* or white-space-only text the 7 values are empty strings.
C7_SevenKeysAndEmptyForBlank ==
    ParseReturned =>
        /\ parseResp.status = "ok"
        /\ SectionKeys \subseteq DOMAIN parseResp
        /\ strip(parseReq.text) = "" => \A k \in SectionKeys : parseResp[k] = ""

\* A text of blank lines only has been split.
C7_Witness ==
    /\ ParseReturned
    /\ parseReq.text = "  \n\n  "
    /\ \A k \in SectionKeys : parseResp[k] = ""
    /\ parseResp.sections_found = 0

(***************************************************************************)
(* The regular expressions of the skill engine.  A pattern is a tree of    *)
(* nodes; Match gives, for a start index, the (next index, group 1) pairs  *)
(* of all the ways the node can match there, in the order in which the     *)
(* backtracking of re tries them.                                          *)
(***************************************************************************)
Lit(str) == [t |-> "lit", str |-> str]

\* [class]* and [class]+ (greedy)
Star(class) == [t |-> "star", class |-> class, least |-> 0]

Plus(class) == [t |-> "star", class |-> class, least |-> 1]

\* .*? (lazy)
LazyAny == [t |-> "lazy_any"]

Cat(parts) == [t |-> "cat", parts |-> parts]

Alt(options) == [t |-> "alt", options |-> options]

\* (?:a)?
Optional(a) == Alt(<<a, Lit("")>>)

\* \b
WordBoundary == [t |-> "boundary"]

\* ( a ), the capturing group
Group(a) == [t |-> "group", a |-> a]

Digit == {Char(DigitChars, i) : i \in 1..Len(DigitChars)}

StartsWithAt(s, i, str) == i + Len(str) - 1 <= Len(s) /\ SubSeq(s, i, i + Len(str) - 1) = str

\* The last index of the run of characters other than newline that starts at i.
LineEnd(s, i) ==
    LET stops == {j \in i..Len(s) : Char(s, j) = "\n"}
    IN  IF stops = {} THEN Len(s)
        ELSE (CHOOSE j \in stops : \A k \in stops : j <= k) - 1

\* The matches of a group's content that starts at i, each with the text it took.
Captured(inner, s, i) ==
    [k \in 1..Len(inner) |-> <<inner[k][1], SubSeq(s, i, inner[k][1] - 1)>>]

RECURSIVE Match(_, _, _, _)
RECURSIVE MatchParts(_, _, _, _)
RECURSIVE MatchOptions(_, _, _, _, _)
RECURSIVE MatchEach(_, _, _, _, _)

Match(re, s, i, group1) ==
    CASE re.t = "lit" ->
           IF StartsWithAt(s, i, re.str) THEN << <<i + Len(re.str), group1>> >> ELSE <<>>
      [] re.t = "boundary" ->
           IF WordBoundaryAt(s, i) THEN << <<i, group1>> >> ELSE <<>>
      [] re.t = "star" ->
           LET e == RunEnd(s, i, re.class)
           IN  [k \in 1..(e + 1 - (i - 1 + re.least)) |-> <<e + 2 - k, group1>>]
      [] re.t = "lazy_any" ->
           LET e == LineEnd(s, i)
           IN  [k \in 1..(e + 2 - i) |-> <<i + k - 1, group1>>]
      [] re.t = "cat" -> MatchParts(re.parts, 1, s, << <<i, group1>> >>)
      [] re.t = "alt" -> MatchOptions(re.options, 1, s, i, group1)
      [] re.t = "group" -> Captured(Match(re.a, s, i, group1), s, i)

\* re applied from each of the states lo..hi, in their order
MatchEach(re, s, states, lo, hi) ==
    IF lo > hi THEN <<>>
    ELSE IF lo = hi THEN Match(re, s, states[lo][1], states[lo][2])
    ELSE LET mid == (lo + hi) \div 2
         IN  MatchEach(re, s, states, lo, mid) \o MatchEach(re, s, states, mid + 1, hi)

MatchParts(parts, p, s, states) ==
    IF p > Len(parts) \/ states = <<>> THEN states
    ELSE MatchParts(parts, p + 1, s, MatchEach(parts[p], s, states, 1, Len(states)))

MatchOptions(options, o, s, i, group1) ==
    IF o > Len(options) THEN <<>>
    ELSE Match(options[o], s, i, group1) \o MatchOptions(options, o + 1, s, i, group1)

\* re.finditer(re, s) from index i on: the matches as records with the 0-based
\* start of the code.
\* The least index of the set, 0 when it is empty.
FirstOf(indexes) ==
    IF indexes = {} THEN 0 ELSE CHOOSE j \in indexes : \A k \in indexes : j <= k

RECURSIVE FindIter(_, _, _)
RECURSIVE FindIterAt(_, _, _)
RECURSIVE FindIterFound(_, _, _, _)
FindIter(re, s, i) ==
    FindIterAt(re, s, FirstOf({j \in i..(Len(s) + 1) : Match(re, s, j, "") # <<>>}))

\* first: the leftmost index at which re matches, 0 when there is none
FindIterAt(re, s, first) ==
    IF first = 0 THEN <<>> ELSE FindIterFound(re, s, first, Match(re, s, first, ""))

\* found: the ways re matches at first
FindIterFound(re, s, first, found) ==
    << [start |-> first - 1, group1 |-> found[1][2]] >>
    \o FindIter(re, s, IF found[1][1] > first THEN found[1][1] ELSE first + 1)

\* (\d+(?:\.\d+)?)
NumberGroup == Group(Cat(<<Plus(Digit), Optional(Cat(<<Lit("."), Plus(Digit)>>))>>))

\* (?:years?|yrs?)
YearsWord == Alt(<<Cat(<<Lit("year"), Optional(Lit("s"))>>), Cat(<<Lit("yr"), Optional(Lit("s"))>>)>>)

Spaces == Star(Whitespace)

(***************************************************************************)
(* float(str) and str(float) for the decimal numbers the patterns capture. *)
(***************************************************************************)
DigitValue(c) == (CHOOSE i \in 1..Len(DigitChars) : Char(DigitChars, i) = c) - 1

RECURSIVE StrToNat(_)
StrToNat(str) ==
    IF str = "" THEN 0
    ELSE 10 * StrToNat(SubSeq(str, 1, Len(str) - 1)) + DigitValue(Char(str, Len(str)))

RECURSIVE Pow10(_)
Pow10(k) == IF k = 0 THEN 1 ELSE 10 * Pow10(k - 1)

\* float(str) as an exact rational
ToFloat(str) ==
    LET dots == {i \in 1..Len(str) : Char(str, i) = "."}
        dot == CHOOSE i \in dots : TRUE
    IN  IF dots = {} THEN R(StrToNat(str))
        ELSE Frac(StrToNat(SubSeq(str, 1, dot - 1)) * Pow10(Len(str) - dot)
                    + StrToNat(SubSeq(str, dot + 1, Len(str))),
                  Pow10(Len(str) - dot))

RECURSIVE NatToStr(_)
NatToStr(n) ==
    IF n < 10 THEN Char(DigitChars, n + 1)
    ELSE NatToStr(n \div 10) \o Char(DigitChars, (n % 10) + 1)

RECURSIVE FractionDigits(_, _)
FractionDigits(num, den) ==
    IF num = 0 THEN ""
    ELSE Char(DigitChars, ((num * 10) \div den) + 1) \o FractionDigits((num * 10) % den, den)

\* str(x) of a non-negative float with a finite decimal expansion
FloatToStr(x) ==
    NatToStr(x[1] \div x[2]) \o "."
        \o (IF x[1] % x[2] = 0 THEN "0" ELSE FractionDigits(x[1] % x[2], x[2]))

(***************************************************************************)
(* SkillIntelligenceEngine (skill_analysis/service.py).                    *)
(***************************************************************************)
LEVEL_KEYWORDS ==
    << [keyword |-> "expert", score |-> 90],
       [keyword |-> "advanced", score |-> 85],
       [keyword |-> "proficient", score |-> 75],
       [keyword |-> "experienced", score |-> 70],
       [keyword |-> "intermediate", score |-> 50],
       [keyword |-> "moderate", score |-> 45],
       [keyword |-> "basic", score |-> 30],
       [keyword |-> "beginner", score |-> 20],
       [keyword |-> "novice", score |-> 15],
       [keyword |-> "familiar", score |-> 25],
       [keyword |-> "learning", score |-> 20] >>

\* Verb strengths in tenths.
STRONG_VERBS ==
    << [verb |-> "architected", strength |-> 9],
       [verb |-> "designed", strength |-> 8],
       [verb |-> "developed", strength |-> 8],
       [verb |-> "built", strength |-> 7],
       [verb |-> "led", strength |-> 9],
       [verb |-> "managed", strength |-> 8],
       [verb |-> "optimized", strength |-> 8],
       [verb |-> "implemented", strength |-> 7],
       [verb |-> "created", strength |-> 7],
       [verb |-> "engineered", strength |-> 8],
       [verb |-> "deployed", strength |-> 7],
       [verb |-> "maintained", strength |-> 6],
       [verb |-> "integrated", strength |-> 6],
       [verb |-> "configured", strength |-> 6],
       [verb |-> "customized", strength |-> 6],
       [verb |-> "enhanced", strength |-> 7],
       [verb |-> "improved", strength |-> 7],
       [verb |-> "automated", strength |-> 8],
       [verb |-> "streamlined", strength |-> 7],
       [verb |-> "scaled", strength |-> 8] >>

WEAK_VERBS ==
    << [verb |-> "learned", strength |-> 3],
       [verb |-> "studied", strength |-> 3],
       [verb |-> "familiar", strength |-> 3],
       [verb |-> "exposed", strength |-> 2],
       [verb |-> "introduced", strength |-> 3],
       [verb |-> "trained", strength |-> 4],
       [verb |-> "attended", strength |-> 2],
       [verb |-> "participated", strength |-> 3],
       [verb |-> "observed", strength |-> 2],
       [verb |-> "assisted", strength |-> 4],
       [verb |-> "helped", strength |-> 4],
       [verb |-> "supported", strength |-> 4] >>

LEVEL_THRESHOLDS ==
    << [level |-> "Beginner", min_score |-> 0, max_score |-> 30],
       [level |-> "Intermediate", min_score |-> 30, max_score |-> 60],
       [level |-> "Expert", min_score |-> 60, max_score |-> 100] >>

SIGNAL_WEIGHTS ==
    [years_experience |-> Frac(6, 10), level_keyword |-> Frac(4, 10),
     strong_verb |-> Frac(3, 10), weak_verb |-> Frac(-2, 10)]

context_window == 100

Max2(a, b) == IF a >= b THEN a ELSE b

\* s.find(sub), 0-based; the callers test containment first.
Find(sub, s) ==
    (CHOOSE i \in 1..Len(s) + 1 : StartsWithAt(s, i, sub)
                                  /\ \A j \in 1..(i - 1) : ~StartsWithAt(s, j, sub)) - 1

RECURSIVE Starts(_)
Starts(matches) ==
    IF matches = <<>> THEN <<>> ELSE <<Head(matches).start>> \o Starts(Tail(matches))

_find_skill_occurrences(skill, text) ==
    LET text_lower == lower(text)
        skill_lower == lower(skill)
        pattern == Cat(<<WordBoundary, Lit(skill_lower), WordBoundary>>)
    IN  Starts(FindIter(pattern, text_lower, 1))

_extract_context_window(text, position, skill) ==
    LET start == Max2(0, position - context_window)
        end == Min2(Len(text), position + Len(skill) + context_window)
    IN  strip(SubSeq(text, start + 1, end))

YearsPatterns(skill_lower) ==
    << Cat(<<NumberGroup, Spaces, YearsWord, Spaces,
             Optional(Cat(<<Lit("of"), Spaces>>)),
             Optional(Cat(<<Lit("experience"), Spaces>>)),
             Optional(Alt(<<Cat(<<Lit("with"), Spaces>>), Cat(<<Lit("in"), Spaces>>),
                            Cat(<<Lit("using"), Spaces>>)>>)),
             Lit(skill_lower)>>),
       Cat(<<Lit(skill_lower), Spaces,
             Optional(Alt(<<Cat(<<Lit("for"), Spaces>>), Cat(<<Lit("over"), Spaces>>)>>)),
             NumberGroup, Spaces, YearsWord>>),
       Cat(<<NumberGroup, Optional(Lit("+")), Spaces, YearsWord, Spaces, LazyAny,
             Lit(skill_lower)>>),
       Cat(<<Lit(skill_lower), LazyAny, NumberGroup, Spaces, YearsWord>>) >>

\* A variant that keeps every years mention, whatever its number.
RECURSIVE YearsSignalsUnchecked(_, _, _, _)
YearsSignalsUnchecked(matches, skill, context, position) ==
    IF matches = <<>> THEN <<>>
    ELSE LET years == ToFloat(Head(matches).group1)
             signal == [signal_type |-> "years_experience",
                        signal_value |-> FloatToStr(years) \o " years of " \o skill,
                        context |-> context,
                        weight |-> SIGNAL_WEIGHTS.years_experience,
                        position |-> position + Head(matches).start]
         IN  <<signal>> \o YearsSignalsUnchecked(Tail(matches), skill, context, position)

RECURSIVE YearsSignalsOf(_, _, _, _)
YearsSignalsOf(matches, skill, context, position) ==
    IF matches = <<>> THEN <<>>
    ELSE LET years == ToFloat(Head(matches).group1)
             signal == [signal_type |-> "years_experience",
                        signal_value |-> FloatToStr(years) \o " years of " \o skill,
                        context |-> context,
                        weight |-> SIGNAL_WEIGHTS.years_experience,
                        position |-> position + Head(matches).start]
         IN  (IF RLe(Frac(1, 2), years) /\ RLe(years, R(20)) THEN <<signal>> ELSE <<>>)
             \o YearsSignalsOf(Tail(matches), skill, context, position)

RECURSIVE YearsLoop(_, _, _, _, _)
YearsLoop(patterns, p, skill, context, position) ==
    IF p > Len(patterns) THEN <<>>
    ELSE YearsSignalsOf(FindIter(patterns[p], lower(context), 1), skill, context, position)
         \o YearsLoop(patterns, p + 1, skill, context, position)

_detect_years_patterns(skill, context, position) ==
    YearsLoop(YearsPatterns(lower(skill)), 1, skill, context, position)

RECURSIVE LevelLoop(_, _, _, _)
LevelLoop(k, context, context_lower, position) ==
    IF k > Len(LEVEL_KEYWORDS) THEN <<>>
    ELSE LET keyword == LEVEL_KEYWORDS[k].keyword
             signal == [signal_type |-> "level_keyword",
                        signal_value |-> keyword \o " level",
                        context |-> context,
                        weight |-> RMul(SIGNAL_WEIGHTS.level_keyword,
                                        Frac(LEVEL_KEYWORDS[k].score, 100)),
                        position |-> position + Find(keyword, context_lower)]
         IN  (IF Contains(keyword, context_lower) THEN <<signal>> ELSE <<>>)
             \o LevelLoop(k + 1, context, context_lower, position)

_detect_level_keywords(context, position) == LevelLoop(1, context, lower(context), position)

RECURSIVE VerbLoop(_, _, _, _, _, _, _)
VerbLoop(verbs, k, signal_type, label, context, context_lower, position) ==
    IF k > Len(verbs) THEN <<>>
    ELSE LET verb == verbs[k].verb
             signal == [signal_type |-> signal_type,
                        signal_value |-> label \o verb,
                        context |-> context,
                        weight |-> RMul(SIGNAL_WEIGHTS[signal_type], Frac(verbs[k].strength, 10)),
                        position |-> position + Find(verb, context_lower)]
         IN  (IF Contains(verb, context_lower) THEN <<signal>> ELSE <<>>)
             \o VerbLoop(verbs, k + 1, signal_type, label, context, context_lower, position)

_detect_verb_signals(context, position) ==
    VerbLoop(STRONG_VERBS, 1, "strong_verb", "strong action: ", context, lower(context), position)
    \o VerbLoop(WEAK_VERBS, 1, "weak_verb", "weak indicator: ", context, lower(context), position)

_detect_proficiency_signals(skill, context, position) ==
    _detect_years_patterns(skill, context, position)
    \o _detect_level_keywords(context, position)
    \o _detect_verb_signals(context, position)

RECURSIVE _deduplicate_from(_, _)
_deduplicate_from(signals, seen) ==
    IF signals = <<>> THEN <<>>
    ELSE LET key == <<Head(signals).signal_type, lower(Head(signals).signal_value)>>
         IN  IF key \in seen THEN _deduplicate_from(Tail(signals), seen)
             ELSE <<Head(signals)>> \o _deduplicate_from(Tail(signals), seen \cup {key})

_deduplicate_signals(signals) == _deduplicate_from(signals, {})

\* float(re.search(r'(\d+(?:\.\d+)?)', signal_value).group(1)); every years
\* signal value starts with its number.
YearsOfSignal(signal) == ToFloat(FindIter(NumberGroup, signal.signal_value, 1)[1].group1)

\* The score of the first level keyword, in table order, that the value holds.
KeywordScoreOf(signal_value) ==
    LET hits == {k \in 1..Len(LEVEL_KEYWORDS) :
                    Contains(LEVEL_KEYWORDS[k].keyword, lower(signal_value))}
    IN  IF hits = {} THEN 0
        ELSE LEVEL_KEYWORDS[CHOOSE k \in hits : \A j \in hits : k <= j].score

\* A variant of the loop that clamps the contribution of each signal to 0..100
\* before adding it.
RECURSIVE ScoreLoopClampingEachSignal(_, _, _)
ScoreLoopClampingEachSignal(signals, total_score, max_years_bonus) ==
    IF signals = <<>> THEN <<total_score, max_years_bonus>>
    ELSE LET signal == Head(signals)
         IN  CASE signal.signal_type = "years_experience" ->
                    ScoreLoopClampingEachSignal(Tail(signals), total_score,
                              RMax(max_years_bonus,
                                   RMin(RMul(YearsOfSignal(signal), R(15)), R(60))))
               [] signal.signal_type = "level_keyword" ->
                    ScoreLoopClampingEachSignal(Tail(signals),
                              RAdd(total_score,
                                   Clamp0to100(RMul(R(KeywordScoreOf(signal.signal_value)),
                                                    signal.weight))),
                              max_years_bonus)
               [] signal.signal_type = "strong_verb" ->
                    ScoreLoopClampingEachSignal(Tail(signals),
                              RAdd(total_score, Clamp0to100(RMul(R(60), signal.weight))),
                              max_years_bonus)
               [] signal.signal_type = "weak_verb" ->
                    ScoreLoopClampingEachSignal(Tail(signals),
                              RAdd(total_score, Clamp0to100(RMul(signal.weight, R(30)))),
                              max_years_bonus)

\* The loop over the signals: <<total_score, max_years_bonus>>.
RECURSIVE ScoreLoop(_, _, _)
ScoreLoop(signals, total_score, max_years_bonus) ==
    IF signals = <<>> THEN <<total_score, max_years_bonus>>
    ELSE LET signal == Head(signals)
         IN  CASE signal.signal_type = "years_experience" ->
                    ScoreLoop(Tail(signals), total_score,
                              RMax(max_years_bonus,
                                   RMin(RMul(YearsOfSignal(signal), R(15)), R(60))))
               [] signal.signal_type = "level_keyword" ->
                    ScoreLoop(Tail(signals),
                              RAdd(total_score,
                                   RMul(R(KeywordScoreOf(signal.signal_value)), signal.weight)),
                              max_years_bonus)
               [] signal.signal_type = "strong_verb" ->
                    ScoreLoop(Tail(signals), RAdd(total_score, RMul(R(60), signal.weight)),
                              max_years_bonus)
               [] signal.signal_type = "weak_verb" ->
                    ScoreLoop(Tail(signals), RAdd(total_score, RMul(signal.weight, R(30))),
                              max_years_bonus)

\* total_score after the loop, from <<total_score, max_years_bonus>>
TotalScore(sums) == RAdd(RAdd(sums[1], sums[2]), R(20))

\* The total of the signals without the clamp to 0..100.
ScoreWithoutClamp(signals) ==
    IF signals = <<>> THEN 10
    ELSE Trunc(TotalScore(ScoreLoop(signals, R(0), R(0))))

\* A variant that gives the base of 20 also to an empty list of signals.
ScoreWithBaseForNoSignal(signals) ==
    Max2(0, Min2(100, Trunc(TotalScore(ScoreLoop(signals, R(0), R(0))))))

_calculate_proficiency_score(signals) ==
    IF signals = <<>> THEN 10
    ELSE Max2(0, Min2(100, Trunc(TotalScore(ScoreLoop(signals, R(0), R(0))))))

_score_to_level(score) ==
    LET hits == {k \in 1..Len(LEVEL_THRESHOLDS) :
                    /\ LEVEL_THRESHOLDS[k].min_score <= score
                    /\ score < LEVEL_THRESHOLDS[k].max_score}
    IN  IF hits = {} THEN "Expert"
        ELSE LEVEL_THRESHOLDS[CHOOSE k \in hits : \A j \in hits : k <= j].level

\* Optional[int]: <<>> for None, <<n>> for n.
RECURSIVE _extract_years_experience(_)
_extract_years_experience(signals) ==
    IF signals = <<>> THEN <<>>
    ELSE IF Head(signals).signal_type = "years_experience"
         THEN <<Trunc(YearsOfSignal(Head(signals)))>>
         ELSE _extract_years_experience(Tail(signals))

RAbs(x) == <<Abs(x[1]), x[2]>>

RECURSIVE SumOfWeights(_)
SumOfWeights(signals) ==
    IF signals = <<>> THEN R(0)
    ELSE RAdd(RAbs(Head(signals).weight), SumOfWeights(Tail(signals)))

_calculate_confidence(signals, occurrences) ==
    IF signals = <<>> THEN Frac(1, 10)
    ELSE LET signal_types == {signals[k].signal_type : k \in 1..Len(signals)}
             type_confidence == Frac(2 * Cardinality(signal_types), 10)
             occurrence_confidence == RMin(Frac(occurrences, 10), Frac(3, 10))
             strength_confidence == RMul(SumOfWeights(signals), Frac(1, Len(signals)))
         IN  RMin(R(1), RAdd(RAdd(type_confidence, occurrence_confidence), strength_confidence))

RECURSIVE SignalsOfOccurrences(_, _, _)
SignalsOfOccurrences(skill, resume_text, skill_occurrences) ==
    IF skill_occurrences = <<>> THEN <<>>
    ELSE LET position == Head(skill_occurrences)
             context == _extract_context_window(resume_text, position, skill)
         IN  _detect_proficiency_signals(skill, context, position)
             \o SignalsOfOccurrences(skill, resume_text, Tail(skill_occurrences))

RECURSIVE SignalValues(_)
SignalValues(signals) ==
    IF signals = <<>> THEN <<>>
    ELSE <<Head(signals).signal_value>> \o SignalValues(Tail(signals))

SkillProficiencyResult(skill, score, unique_signals, occurrences) ==
    [skill |-> skill,
     score |-> score,
     level |-> _score_to_level(score),
     years_experience |-> _extract_years_experience(unique_signals),
     confidence |-> _calculate_confidence(unique_signals, occurrences),
     signals_detected |-> SignalValues(unique_signals)]

\* The result for a skill with unique_signals in its context windows.
ResultOfSignals(skill, unique_signals, occurrences) ==
    SkillProficiencyResult(skill, _calculate_proficiency_score(unique_signals),
                           unique_signals, occurrences)

\* The result for a skill found at skill_occurrences.
ResultOfOccurrences(skill, resume_text, skill_occurrences) ==
    IF skill_occurrences = <<>>
    THEN [skill |-> skill,
          score |-> 10,
          level |-> "Beginner",
          years_experience |-> <<>>,
          confidence |-> Frac(1, 10),
          signals_detected |-> <<"skill listed but no context found">>]
    ELSE ResultOfSignals(skill,
             _deduplicate_signals(SignalsOfOccurrences(skill, resume_text, skill_occurrences)),
             Len(skill_occurrences))

\* The analysis without the branch for a skill that does not occur.
AnalyzeWithoutNotFoundBranch(skill, resume_text) ==
    ResultOfSignals(skill,
        _deduplicate_signals(SignalsOfOccurrences(skill, resume_text,
                                                  _find_skill_occurrences(skill, resume_text))),
        Len(_find_skill_occurrences(skill, resume_text)))

_analyze_single_skill(skill, resume_text) ==
    ResultOfOccurrences(skill, resume_text, _find_skill_occurrences(skill, resume_text))

\* The loop with a skill analysed only the first time the list names it.
AnalyzeFirstMentions(skills, resume_text) ==
    LET firsts == {i \in 1..Len(skills) : \A k \in 1..(i - 1) : skills[k] # skills[i]}
        nth(j) == CHOOSE i \in firsts : Cardinality({k \in firsts : k < i}) = j - 1
    IN  [j \in 1..Cardinality(firsts) |-> _analyze_single_skill(skills[nth(j)], resume_text)]

\* results, after the loop over skills
AnalyzeEach(skills, resume_text) ==
    [i \in 1..Len(skills) |-> _analyze_single_skill(skills[i], resume_text)]

RECURSIVE SumOfScores(_)
SumOfScores(results) ==
    IF results = <<>> THEN 0 ELSE Head(results).score + SumOfScores(Tail(results))

SkillLevels == {"Beginner", "Intermediate", "Expert"}

SkillAnalysisResponse(results, processing_time) ==
    LET average_score == IF results # <<>> THEN Frac(SumOfScores(results), Len(results)) ELSE R(0)
        level_summary == [level \in SkillLevels |->
                             Cardinality({k \in 1..Len(results) : results[k].level = level})]
    IN  [status |-> "ok",
         results |-> results,
         total_skills_analyzed |-> Len(results),
         average_proficiency_score |-> Frac(PyRound(RMul(average_score, R(100))), 100),
         processing_time_seconds |-> Frac(PyRound(RMul(processing_time, R(1000))), 1000),
         summary |-> level_summary]

analyze_skill_proficiency(skills, resume_text, processing_time) ==
    SkillAnalysisResponse(AnalyzeEach(skills, resume_text), processing_time)

(***************************************************************************)
(* Calls of analyze_skill_proficiency.                                     *)
(***************************************************************************)
MaxSkillList == 3

SkillInputs == {"Python", "python", "COBOL"}

\* More than context_window characters without a signal.
Filler == " Joined the platform group of a mid-sized company and took part in the daily work on its main product line. "

ResumeTextInputs ==
    {"",
     "Python",
     "Expert in Python. Architected and led services.",
     "5 years of experience with Python, designed APIs",
     "10 years of Python: architected, designed, developed and led teams",
     "Maintained Python tools",
     "Maintained Python tools, exposed to Go",
     "2 years of Python, maintained tools",
     "2 years of Python, maintained tools, exposed to Go",
     "Learned, studied, attended, observed, assisted, helped, supported, trained: python (exposed, introduced, participated)",
     "python 25 years, Python 0.2 years, python 2.5 years",
     "5 years at Acme." \o Filler \o "Python" \o Filler \o "Expert mentor.",
     "Architected and led COBOL systems for 5 years." \o Filler
         \o "Maintained Python tools, exposed to Go"}

SkillRequests ==
    [status : {"called"}, skills : SeqsUpTo(SkillInputs, MaxSkillList),
     resume_text : ResumeTextInputs]

AnalyzeSkillProficiency ==
    /\ skillReq # None
    /\ skillResp = None
    /\ \E processing_time \in ElapsedInputs :
          skillResp' = analyze_skill_proficiency(skillReq.skills, skillReq.resume_text,
                                                 processing_time)
    /\ UNCHANGED <<skillReq, scoreReq, scoreResp, expReq, expResp, parseReq, parseResp, reportVars, entityVars, pipelineVars, tableVars, sectionVars, strengthVars, clockVars>>

InitSkill ==
    /\ skillReq \in SkillRequests /\ skillResp = None
    /\ scoreReq = None /\ scoreResp = None
    /\ expReq = None /\ expResp = None
    /\ parseReq = None /\ parseResp = None
    /\ ReportIdle
    /\ EntityIdle
    /\ PipelineIdle
    /\ TableIdle
    /\ SectionCallsIdle
    /\ StrengthIdle
    /\ ClockIdle

NextSkill == AnalyzeSkillProficiency

SpecSkill == InitSkill /\ [][NextSkill]_vars

(***************************************************************************)
(* Properties of SkillIntelligenceEngine.                                  *)
(***************************************************************************)
SkillsAnalyzed == skillResp # None

\* C8: one result per element of the input list, in input order, each with its
\* input skill name, and total_skills_analyzed is the length of the list.
C8_OneResultPerSkillInOrder ==
    SkillsAnalyzed =>
        /\ Len(skillResp.results) = Len(skillReq.skills)
        /\ \A i \in 1..Len(skillReq.skills) : skillResp.results[i].skill = skillReq.skills[i]
        /\ skillResp.total_skills_analyzed = Len(skillReq.skills)

\* A list with a repeated skill and a skill the text does not hold.
C8_Witness ==
    /\ SkillsAnalyzed
    /\ skillReq.skills = <<"Python", "COBOL", "Python">>
    /\ skillReq.resume_text = "Maintained Python tools"
    /\ Len(skillResp.results) = 3
    /\ skillResp.results[1] = skillResp.results[3]
    /\ skillResp.results[2].score = 10

\* The skill occurs nowhere in the text as a whole word, whatever its case.
OccursIn(skill, text) ==
    \E i \in 1..(Len(text) - Len(skill) + 1) :
        /\ lower(SubSeq(text, i, i + Len(skill) - 1)) = lower(skill)
        /\ WordBoundaryAt(text, i)
        /\ WordBoundaryAt(text, i + Len(skill))

\* C9: a skill with no occurrence in the text gets score 10, Beginner,
\* confidence 0.1, no years, and the single signal "skill listed but no
\* context found".
C9_AbsentSkillGetsMinimalResult ==
    SkillsAnalyzed =>
        \A i \in 1..Len(skillResp.results) :
            ~OccursIn(skillReq.skills[i], skillReq.resume_text) =>
                /\ skillResp.results[i].score = 10
                /\ skillResp.results[i].level = "Beginner"
                /\ skillResp.results[i].confidence = Frac(1, 10)
                /\ skillResp.results[i].years_experience = <<>>
                /\ skillResp.results[i].signals_detected = <<"skill listed but no context found">>

C9_Witness ==
    /\ SkillsAnalyzed
    /\ skillReq.skills = <<"COBOL">>
    /\ skillReq.resume_text = "Expert in Python. Architected and led services."
    /\ skillResp.results[1].score = 10
    /\ skillResp.results[1].signals_detected = <<"skill listed but no context found">>

\* C10: every result has an integer score in 0..100 and the level of its score:
\* Beginner below 30, Intermediate from 30 to 59, Expert from 60 to 100.
C10_ScoreInRangeAndLevelOfScore ==
    SkillsAnalyzed =>
        \A i \in 1..Len(skillResp.results) :
            LET score == skillResp.results[i].score
                level == skillResp.results[i].level
            IN  /\ score \in 0..100
                /\ level = "Beginner" <=> score < 30
                /\ level = "Intermediate" <=> (30 <= score /\ score < 60)
                /\ level = "Expert" <=> (60 <= score /\ score <= 100)

\* A score of 100 has been given.
C10_Witness ==
    /\ SkillsAnalyzed
    /\ \E i \in 1..Len(skillResp.results) :
          /\ skillResp.results[i].score = 100
          /\ skillResp.results[i].level = "Expert"

\* The signal descriptions of a result, by kind.
IsYearsValue(value) == Contains(" years of ", value) /\ Contains(Char(value, 1), DigitChars)

YearsValueOf(value) == ToFloat(FindIter(NumberGroup, value, 1)[1].group1)

\* The points the description of a level keyword, a strong verb or a weak verb
\* stands for: base * 0.4 * base / 100, 60 * 0.3 * strength, 30 * (-0.2) * strength.
PointsOf(value) ==
    LET levels == {k \in 1..Len(LEVEL_KEYWORDS) : value = LEVEL_KEYWORDS[k].keyword \o " level"}
        strong == {k \in 1..Len(STRONG_VERBS) : value = "strong action: " \o STRONG_VERBS[k].verb}
        weak == {k \in 1..Len(WEAK_VERBS) : value = "weak indicator: " \o WEAK_VERBS[k].verb}
    IN  IF levels # {}
        THEN Frac(4 * LEVEL_KEYWORDS[CHOOSE k \in levels : TRUE].score
                    * LEVEL_KEYWORDS[CHOOSE k \in levels : TRUE].score, 1000)
        ELSE IF strong # {}
        THEN Frac(60 * 3 * STRONG_VERBS[CHOOSE k \in strong : TRUE].strength, 100)
        ELSE IF weak # {}
        THEN Frac(-(30 * 2 * WEAK_VERBS[CHOOSE k \in weak : TRUE].strength), 100)
        ELSE R(0)

RECURSIVE SumOfPoints(_)
SumOfPoints(values) ==
    IF values = <<>> THEN R(0)
    ELSE RAdd(IF IsYearsValue(Head(values)) THEN R(0) ELSE PointsOf(Head(values)),
              SumOfPoints(Tail(values)))

RECURSIVE MaxYearsBonus(_)
MaxYearsBonus(values) ==
    IF values = <<>> THEN R(0)
    ELSE RMax(IF IsYearsValue(Head(values))
              THEN RMin(RMul(R(15), YearsValueOf(Head(values))), R(60)) ELSE R(0),
              MaxYearsBonus(Tail(values)))

\* 20 + the years bonus + the points of the other signals, before the clamp.
TotalOf(values) == RAdd(R(20), RAdd(MaxYearsBonus(values), SumOfPoints(values)))

HasSignals(result) ==
    /\ result.signals_detected # <<>>
    /\ result.signals_detected # <<"skill listed but no context found">>

\* C23: the score of a skill with signals is the total of its signals, truncated
\* and then clamped once to 0..100.
C23_ScoreIsClampedTotalOfSignals ==
    SkillsAnalyzed =>
        \A i \in 1..Len(skillResp.results) :
            HasSignals(skillResp.results[i]) =>
                skillResp.results[i].score
                    = Max2(0, Min2(100, Trunc(TotalOf(skillResp.results[i].signals_detected))))

\* A weak verb has lowered a total below 100, and a total above 100 was cut.
C23_Witness ==
    /\ SkillsAnalyzed
    /\ \E i \in 1..Len(skillResp.results) :
          /\ HasSignals(skillResp.results[i])
          /\ \E k \in 1..Len(skillResp.results[i].signals_detected) :
                RLt(PointsOf(skillResp.results[i].signals_detected[k]), R(0))
          /\ skillResp.results[i].score \in 1..99
    /\ \E i \in 1..Len(skillResp.results) :
          /\ RLt(R(100), TotalOf(skillResp.results[i].signals_detected))
          /\ skillResp.results[i].score = 100
          /\ skillResp.results[i].level = "Expert"

YearsValues(values) == SelectSeq(values, IsYearsValue)

\* C28: every years signal has 0.5 <= N <= 20, and years_experience is the
\* truncated number of the first years signal, null when there is none.
C28_YearsInRangeAndFirstSignalReported ==
    SkillsAnalyzed =>
        \A i \in 1..Len(skillResp.results) :
            LET years == YearsValues(skillResp.results[i].signals_detected)
            IN  /\ \A k \in 1..Len(years) :
                      /\ RLe(Frac(1, 2), YearsValueOf(years[k]))
                      /\ RLe(YearsValueOf(years[k]), R(20))
                /\ years = <<>> <=> skillResp.results[i].years_experience = <<>>
                /\ years # <<>> =>
                      skillResp.results[i].years_experience = <<Trunc(YearsValueOf(years[1]))>>

\* Mentions of 25, 0.2 and 2.5 years: only the last one is a signal.
C28_Witness ==
    /\ SkillsAnalyzed
    /\ skillReq.resume_text = "python 25 years, Python 0.2 years, python 2.5 years"
    /\ skillReq.skills = <<"Python">>
    /\ YearsValues(skillResp.results[1].signals_detected) = <<"2.5 years of Python">>
    /\ skillResp.results[1].years_experience = <<2>>

\* The words that make a signal: level keywords, strong and weak verbs, digits.
SignalWordIn(context) ==
    \/ \E k \in 1..Len(LEVEL_KEYWORDS) : Contains(LEVEL_KEYWORDS[k].keyword, lower(context))
    \/ \E k \in 1..Len(STRONG_VERBS) : Contains(STRONG_VERBS[k].verb, lower(context))
    \/ \E k \in 1..Len(WEAK_VERBS) : Contains(WEAK_VERBS[k].verb, lower(context))
    \/ \E j \in 1..Len(context) : Contains(Char(context, j), DigitChars)

\* The skill occurs in the text and none of its context windows holds a signal word.
OccursWithoutSignal(skill, text) ==
    LET occurrences == _find_skill_occurrences(skill, text)
    IN  /\ occurrences # <<>>
        /\ \A k \in 1..Len(occurrences) :
              ~SignalWordIn(_extract_context_window(text, occurrences[k], skill))

\* C29: a skill that occurs without a signal gets score 10, Beginner,
\* confidence 0.1, no years and no signal descriptions.
C29_OccurrenceWithoutSignalGetsTen ==
    SkillsAnalyzed =>
        \A i \in 1..Len(skillResp.results) :
            OccursWithoutSignal(skillReq.skills[i], skillReq.resume_text) =>
                /\ skillResp.results[i].score = 10
                /\ skillResp.results[i].level = "Beginner"
                /\ skillResp.results[i].confidence = Frac(1, 10)
                /\ skillResp.results[i].years_experience = <<>>
                /\ skillResp.results[i].signals_detected = <<>>

\* The skill stands between two stretches of text longer than the window.
C29_Witness ==
    /\ SkillsAnalyzed
    /\ skillReq.skills = <<"Python">>
    /\ skillReq.resume_text = "5 years at Acme." \o Filler \o "Python" \o Filler \o "Expert mentor."
    /\ skillResp.results[1].score = 10
    /\ skillResp.results[1].signals_detected = <<>>

(***************************************************************************)
(* EvaluationReportGenerator (modules/report_generation/service.py).       *)
(*                                                                         *)
(* The report's lines are strings, built as the f-strings build them.  The *)
(* fields recommendation_tier, key_strengths and improvement_areas of the  *)
(* scoring result, and years_experience and is_critical of a skill, are    *)
(* never read by the generator and are left out of the request.            *)
(***************************************************************************)
ReportCriticalSkills ==
    {"python", "java", "javascript", "typescript", "c++", "c#", "go", "rust", "kotlin",
     "swift", "aws", "azure", "gcp", "google cloud", "docker", "kubernetes", "jenkins",
     "terraform", "ansible", "sql", "machine learning", "data science", "tensorflow",
     "pytorch", "spark", "hadoop", "react", "angular", "vue", "node.js", "spring",
     "django", "flask", "express", "postgresql", "mongodb", "redis", "elasticsearch",
     "mysql", "cassandra", "agile", "scrum", "devops", "microservices", "rest api",
     "graphql"}

\* ReportTemplateConfig(): the thresholds the generator reads.
ReportTemplateConfig ==
    [high_score_threshold |-> 80, moderate_score_threshold |-> 60,
     high_skill_threshold |-> 70, low_skill_threshold |-> 40,
     strong_achievement_threshold |-> 75, experience_strength_threshold |-> 70]

\* ', '.join(names)
RECURSIVE JoinComma(_)
JoinComma(names) ==
    IF names = <<>> THEN ""
    ELSE IF Len(names) = 1 THEN names[1]
    ELSE names[1] \o ", " \o JoinComma(Tail(names))

\* f"{x:.1f}" of a non-negative float
Fmt1(x) ==
    NatToStr(PyRound(RMul(x, R(10))) \div 10) \o "." \o NatToStr(PyRound(RMul(x, R(10))) % 10)

\* [s.skill for s in skills]
RECURSIVE SkillNames(_)
SkillNames(skills) ==
    IF skills = <<>> THEN <<>> ELSE <<Head(skills).skill>> \o SkillNames(Tail(skills))

\* [s for s in skills if s.score > threshold]
RECURSIVE ScoreAbove(_, _)
ScoreAbove(skills, threshold) ==
    IF skills = <<>> THEN <<>>
    ELSE (IF Head(skills).score > threshold THEN <<Head(skills)>> ELSE <<>>)
         \o ScoreAbove(Tail(skills), threshold)

\* [s for s in skills if s.score <= threshold]
RECURSIVE ScoreAtMost(_, _)
ScoreAtMost(skills, threshold) ==
    IF skills = <<>> THEN <<>>
    ELSE (IF Head(skills).score <= threshold THEN <<Head(skills)>> ELSE <<>>)
         \o ScoreAtMost(Tail(skills), threshold)

\* [s for s in skills if s.skill.lower() in CRITICAL_SKILLS]
RECURSIVE CriticalOf(_)
CriticalOf(skills) ==
    IF skills = <<>> THEN <<>>
    ELSE (IF lower(Head(skills).skill) \in ReportCriticalSkills THEN <<Head(skills)>> ELSE <<>>)
         \o CriticalOf(Tail(skills))

_generate_summary_statement(overall_score, config) ==
    IF overall_score >= config.high_score_threshold
    THEN [profile_tier |-> "Strong Profile",
          summary |-> "This is a strong professional profile with an overall score of "
                      \o NatToStr(overall_score) \o "/100. "
                      \o "The candidate demonstrates excellent qualifications with well-developed skills, "
                      \o "substantial experience, and clear evidence of professional achievements. "
                      \o "This profile would be competitive for senior-level positions."]
    ELSE IF overall_score >= config.moderate_score_threshold
    THEN [profile_tier |-> "Moderate Profile",
          summary |-> "This is a moderate professional profile with an overall score of "
                      \o NatToStr(overall_score) \o "/100. "
                      \o "The candidate shows solid foundational skills and relevant experience, though "
                      \o "there are opportunities for enhancement in certain areas. With targeted improvements, "
                      \o "this profile could become highly competitive."]
    ELSE [profile_tier |-> "Developing Profile",
          summary |-> "This is a developing professional profile with an overall score of "
                      \o NatToStr(overall_score) \o "/100. "
                      \o "While the candidate shows potential, significant improvements are needed to enhance "
                      \o "competitiveness. Focus on skill development, experience building, and resume optimization "
                      \o "would strengthen this profile considerably."]

\* The strengths the rules add, before the fallback lines.
StrengthRules(sr, skills, high_skills, e, config) ==
    Opt(CriticalOf(high_skills) # <<>>,
        "Strong proficiency in critical technical skills: "
            \o JoinComma(SkillNames(Take(CriticalOf(high_skills), 4))))
    \o Opt(Len(high_skills) >= 5,
           "Diverse technical skill portfolio with " \o NatToStr(Len(high_skills))
               \o " high-proficiency skills")
    \o Opt(e.experience_strength_score >= config.experience_strength_threshold
           /\ e.total_experience_years >= 5,
           "Substantial professional experience (" \o NatToStr(e.total_experience_years)
               \o " years)")
    \o Opt(e.experience_strength_score >= config.experience_strength_threshold
           /\ e.seniority_level \in {"Senior", "Executive"},
           e.seniority_level \o "-level professional background")
    \o Opt(e.achievement_score >= config.strong_achievement_threshold,
           "Strong track record of quantified professional achievements")
    \o Opt(e.achievement_score >= config.strong_achievement_threshold
           /\ Len(e.quantified_achievements) >= 3,
           "Multiple measurable accomplishments demonstrating impact")
    \o Opt(e.strong_verbs_count > e.weak_verbs_count * 2,
           "Strong leadership and action-oriented language throughout experience")
    \o Opt(RLe(R(90), sr.structure_score),
           "Well-organized resume structure with comprehensive sections")
    \o Opt(RLe(R(85), sr.skills_score), "Exceptional technical skills evaluation")
    \o Opt(RLe(R(85), sr.experience_score), "Outstanding professional experience quality")

\* The lines added when no rule gave a strength.
StrengthFallback(skills, e) ==
    IF skills = <<>> /\ e.total_experience_years <= 0
    THEN <<"Resume submitted for professional evaluation">>
    ELSE Opt(skills # <<>>,
             "Technical skills portfolio including " \o JoinComma(SkillNames(Take(skills, 3))))
         \o Opt(e.total_experience_years > 0,
                "Professional experience in the field (" \o NatToStr(e.total_experience_years)
                    \o " years)")

StrengthsOf(rules, skills, e) ==
    Take(IF rules = <<>> THEN StrengthFallback(skills, e) ELSE rules, 6)

_identify_strengths(sr, skills, e, config) ==
    StrengthsOf(StrengthRules(sr, skills, ScoreAbove(skills, config.high_skill_threshold),
                              e, config),
                skills, e)

\* The weaknesses the rules add, before the fallback lines.
WeaknessRules(sr, skills, low_skills, e, config) ==
    Opt(low_skills # <<>>,
        "Limited proficiency in key skills: " \o JoinComma(SkillNames(Take(low_skills, 3))))
    \o Opt(Len(skills) < 5,
           "Limited technical skills diversity - consider expanding skill set")
    \o Opt(e.experience_strength_score < config.experience_strength_threshold,
           "Professional experience could benefit from stronger impact statements")
    \o Opt(e.total_experience_years < 2,
           "Limited professional experience - focus on skill development and practice projects")
    \o Opt(e.achievement_score < 50,
           "Lack of quantified achievements and measurable results")
    \o Opt(Len(e.quantified_achievements) = 0,
           "Missing specific metrics and quantified accomplishments")
    \o Opt(e.weak_verbs_count > e.strong_verbs_count,
           "Passive language - replace weak action verbs with stronger, more impactful terms")
    \o Opt(sr.missing_sections # <<>>,
           "Missing important resume sections: " \o JoinComma(sr.missing_sections))
    \o Opt(RLt(sr.structure_score, R(70)),
           "Resume structure and organization could be improved")
    \o Opt(RLt(sr.skills_score, R(60)),
           "Technical skills evaluation indicates need for skill development")
    \o Opt(RLt(sr.experience_score, R(60)),
           "Professional experience section needs strengthening")
    \o Opt(RLt(sr.achievement_score, R(40)),
           "Limited demonstration of professional impact and achievements")
    \o Opt(e.seniority_level \in {"Senior", "Executive"} /\ e.achievement_score < 70,
           "Senior-level role should demonstrate stronger quantified achievements")

\* The two fallback tests, in the code's order.
WeaknessesOf(rules, overall_score, config) ==
    Take(IF rules # <<>> THEN rules
         ELSE IF overall_score < config.moderate_score_threshold
              THEN <<"Overall profile needs strengthening across multiple areas">>
         ELSE IF overall_score < 95
              THEN <<"Continue building expertise and documenting achievements for career growth">>
         ELSE <<>>, 5)

_identify_weaknesses(sr, skills, e, config) ==
    WeaknessesOf(WeaknessRules(sr, skills, ScoreAtMost(skills, config.low_skill_threshold),
                               e, config),
                 sr.overall_score, config)

\* any(skill.skill.lower() == name for skill in skills)
HasSkill(skills, name) == \E i \in 1..Len(skills) : lower(skills[i].skill) = name

\* The critical skills among the first ten of list(CRITICAL_SKILLS) that the
\* analysis does not hold, in the order the set iterates.
RECURSIVE MissingCritical(_, _)
MissingCritical(first_ten, skills) ==
    IF first_ten = <<>> THEN <<>>
    ELSE (IF HasSkill(skills, Head(first_ten)) THEN <<>> ELSE <<Head(first_ten)>>)
         \o MissingCritical(Tail(first_ten), skills)

\* [section for section in missing_sections if section in ["summary", "skills", "experience"]]
RECURSIVE EssentialMissing(_)
EssentialMissing(missing_sections) ==
    IF missing_sections = <<>> THEN <<>>
    ELSE (IF Head(missing_sections) \in {"summary", "skills", "experience"}
          THEN <<Head(missing_sections)>> ELSE <<>>)
         \o EssentialMissing(Tail(missing_sections))

\* The recommendations the rules add, before the fallback line.
RecommendationRules(sr, skills, low_skills, critical_skills_missing, e, config) ==
    Opt(low_skills # <<>>,
        "Enhance proficiency in " \o JoinComma(SkillNames(Take(low_skills, 2)))
            \o " through courses or hands-on projects")
    \o Opt(critical_skills_missing # <<>> /\ Len(skills) < 8,
           "Consider adding in-demand skills like "
               \o JoinComma(Take(critical_skills_missing, 2))
               \o " to strengthen technical profile")
    \o Opt(e.achievement_score < config.strong_achievement_threshold,
           "Add specific metrics and quantified results to experience descriptions (e.g., '% improvement', '$ saved', 'users served')")
    \o Opt(e.weak_verbs_count > e.strong_verbs_count,
           "Replace passive language with strong action verbs like 'led', 'implemented', 'optimized', 'designed'")
    \o Opt(e.seniority_level \in {"Entry", "Junior"} /\ e.total_experience_years >= 2,
           "Highlight leadership opportunities and initiatives to demonstrate career progression")
    \o Opt(EssentialMissing(sr.missing_sections) # <<>>,
           "Add essential resume sections: " \o JoinComma(EssentialMissing(sr.missing_sections)))
    \o Opt(RLt(sr.structure_score, R(80)),
           "Improve resume organization with clear section headings and consistent formatting")
    \o Opt(e.total_experience_years < 3,
           "Build experience through internships, freelance projects, or open-source contributions")
    \o Opt(sr.overall_score >= config.high_score_threshold /\ e.seniority_level # "Executive",
           "Consider pursuing leadership roles or certifications to advance to the next career level")
    \o Opt(Len(skills) >= 8 /\ e.achievement_score >= 70,
           "Create a portfolio or GitHub profile to showcase practical application of your technical skills")

RecommendationsOf(rules, overall_score, config) ==
    Take(IF rules # <<>> THEN rules
         ELSE IF overall_score < config.moderate_score_threshold
              THEN <<"Focus on skill development and gaining relevant professional experience">>
         ELSE <<"Continue documenting achievements and expanding technical expertise">>, 6)

\* A variant whose result is not cut to six entries.
RecommendationsUncut(sr, skills, e, config, first_ten) ==
    RecommendationRules(sr, skills, ScoreAtMost(skills, config.low_skill_threshold),
                        MissingCritical(first_ten, skills), e, config)

\* first_ten is list(CRITICAL_SKILLS)[:10]: the iteration order of the set.
_generate_recommendations(sr, skills, e, config, first_ten) ==
    RecommendationsOf(
        RecommendationRules(sr, skills, ScoreAtMost(skills, config.low_skill_threshold),
                            MissingCritical(first_ten, skills), e, config),
        sr.overall_score, config)

EvaluationSection(title, content, priority_level) ==
    [title |-> title, content |-> content, priority_level |-> priority_level]

\* [s for s in skills if s.level == "Expert" or s.score >= 80]
RECURSIVE ExpertSkills(_)
ExpertSkills(skills) ==
    IF skills = <<>> THEN <<>>
    ELSE (IF Head(skills).level = "Expert" \/ Head(skills).score >= 80
          THEN <<Head(skills)>> ELSE <<>>) \o ExpertSkills(Tail(skills))

\* [s for s in skills if s.level == "Advanced" or (60 <= s.score < 80)]
RECURSIVE AdvancedSkills(_)
AdvancedSkills(skills) ==
    IF skills = <<>> THEN <<>>
    ELSE (IF Head(skills).level = "Advanced" \/ (60 <= Head(skills).score /\ Head(skills).score < 80)
          THEN <<Head(skills)>> ELSE <<>>) \o AdvancedSkills(Tail(skills))

\* [s for s in skills if s.level == "Beginner" or s.score < 60]
RECURSIVE BeginnerSkills(_)
BeginnerSkills(skills) ==
    IF skills = <<>> THEN <<>>
    ELSE (IF Head(skills).level = "Beginner" \/ Head(skills).score < 60
          THEN <<Head(skills)>> ELSE <<>>) \o BeginnerSkills(Tail(skills))

\* "<label> (<count>): <at most n names>", when the category is not empty.
CategoryLine(label, category, n) ==
    Opt(category # <<>>,
        label \o " (" \o NatToStr(Len(category)) \o "): "
            \o JoinComma(SkillNames(Take(category, n))))

_create_skills_evaluation(skills, skills_score, config) ==
    IF skills = <<>>
    THEN EvaluationSection("Skills Analysis",
                           <<"No technical skills identified for evaluation">>, "high")
    ELSE EvaluationSection("Skills Analysis",
            <<"Technical skills evaluation score: " \o Fmt1(skills_score) \o "/100",
              "Total skills identified: " \o NatToStr(Len(skills))>>
            \o CategoryLine("Expert-level skills", ExpertSkills(skills), 5)
            \o CategoryLine("Advanced skills", AdvancedSkills(skills), 5)
            \o CategoryLine("Developing skills", BeginnerSkills(skills), 3)
            \o Opt(CriticalOf(skills) # <<>>,
                   "High-demand industry skills: " \o JoinComma(SkillNames(CriticalOf(skills)))),
            "high")

\* strong_ratio, and f"{strong_ratio:.1%}"
StrongRatio(e) == Frac(e.strong_verbs_count, e.strong_verbs_count + e.weak_verbs_count)

FmtPercent1(x) == Fmt1(RMul(x, R(100))) \o "%"

_create_experience_evaluation(e, experience_score, config) ==
    EvaluationSection("Experience Analysis",
        <<"Professional experience score: " \o Fmt1(experience_score) \o "/100",
          "Total experience: " \o NatToStr(e.total_experience_years) \o " years",
          "Seniority level: " \o e.seniority_level,
          IF e.achievement_score >= config.strong_achievement_threshold
          THEN "Strong achievement record (score: " \o NatToStr(e.achievement_score) \o "/100)"
          ELSE IF e.achievement_score >= 50
          THEN "Moderate achievement documentation (score: " \o NatToStr(e.achievement_score) \o "/100)"
          ELSE "Limited quantified achievements (score: " \o NatToStr(e.achievement_score) \o "/100)">>
        \o (IF e.strong_verbs_count > 0 \/ e.weak_verbs_count > 0
            THEN IF RLt(Frac(6, 10), StrongRatio(e))
                 THEN <<"Strong action-oriented language (" \o NatToStr(e.strong_verbs_count)
                          \o " strong verbs)">>
                 ELSE <<"Opportunity to improve action verb usage (ratio: "
                          \o FmtPercent1(StrongRatio(e)) \o ")">>
            ELSE <<>>)
        \o (IF e.total_experience_years >= 5 /\ e.seniority_level \in {"Senior", "Executive"}
            THEN <<"Career progression aligns with experience level">>
            ELSE IF e.total_experience_years >= 3 /\ e.seniority_level \in {"Entry", "Junior"}
            THEN <<"Opportunity for career advancement based on experience">>
            ELSE <<>>),
        "high")

_create_structure_evaluation(missing_sections, structure_score, config) ==
    EvaluationSection("Structure Analysis",
        <<"Resume structure score: " \o Fmt1(structure_score) \o "/100",
          IF missing_sections = <<>> THEN "All essential resume sections are present"
          ELSE "Missing sections: " \o JoinComma(missing_sections),
          IF RLe(R(90), structure_score) THEN "Excellent resume organization and completeness"
          ELSE IF RLe(R(70), structure_score)
               THEN "Good resume structure with minor improvements needed"
          ELSE "Resume structure needs significant improvement">>,
        "medium")

\* The steps before the cut to four entries.
NextStepsUncut(sr) ==
    (IF sr.overall_score < 60
     THEN <<"Focus on fundamental resume improvements and skill development",
            "Add quantified achievements and specific examples of impact">>
     ELSE IF sr.overall_score < 80
     THEN <<"Enhance technical skills and strengthen experience descriptions",
            "Improve resume structure and add missing sections">>
     ELSE <<"Fine-tune resume for specific target positions",
            "Continue building expertise in emerging technologies">>)
    \o Opt(RLt(sr.skills_score, R(70)),
           "Invest in technical skill development through courses or certifications")
    \o Opt(RLt(sr.experience_score, R(70)),
           "Rewrite experience descriptions with stronger action verbs and metrics")
    \o Opt(sr.missing_sections # <<>>,
           "Complete all essential resume sections before applying")

\* weaknesses and recommendations are parameters the code never reads.
_generate_next_steps(sr, weaknesses, recommendations) == Take(NextStepsUncut(sr), 4)

\* evaluation_criteria; today is datetime.now().strftime("%Y-%m-%d").
EvaluationCriteria(today) ==
    [skills_weight |-> "35%", experience_weight |-> "40%", achievement_weight |-> "15%",
     structure_weight |-> "10%", evaluation_date |-> today,
     scoring_methodology |-> "Rule-based multi-component analysis"]

\* The report of the except branch.  evaluation_criteria takes the schema's
\* default {} (the empty function) and report_generated_at its default, the
\* clock's reading.
MinimalReport(generated_at) ==
    [status |-> "ok", overall_score |-> 0,
     summary_statement |-> "Unable to generate evaluation report due to processing error.",
     profile_tier |-> "Incomplete",
     strengths |-> <<"Resume submitted for evaluation">>,
     weaknesses |-> <<"Unable to complete analysis">>,
     recommendations |-> <<"Please resubmit resume for evaluation">>,
     skills_evaluation |-> EvaluationSection("Skills Analysis", <<"Analysis unavailable">>, "medium"),
     experience_evaluation |->
         EvaluationSection("Experience Analysis", <<"Analysis unavailable">>, "medium"),
     structure_evaluation |->
         EvaluationSection("Structure Analysis", <<"Analysis unavailable">>, "medium"),
     report_generated_at |-> generated_at,
     evaluation_criteria |-> <<>>,
     next_steps |-> <<"Resubmit resume for complete evaluation">>,
     path |-> "except"]

EvaluationReportResponse(sr, summary, strengths, weaknesses, recommendations, skills, e, config, clock) ==
    [status |-> "ok", overall_score |-> sr.overall_score,
     summary_statement |-> summary.summary,
     profile_tier |-> summary.profile_tier,
     strengths |-> strengths,
     weaknesses |-> weaknesses,
     recommendations |-> recommendations,
     skills_evaluation |-> _create_skills_evaluation(skills, sr.skills_score, config),
     experience_evaluation |-> _create_experience_evaluation(e, sr.experience_score, config),
     structure_evaluation |->
         _create_structure_evaluation(sr.missing_sections, sr.structure_score, config),
     report_generated_at |-> clock.generated_at,
     evaluation_criteria |-> EvaluationCriteria(clock.today),
     next_steps |-> _generate_next_steps(sr, weaknesses, recommendations),
     path |-> "try"]

\* first_ten: list(CRITICAL_SKILLS)[:10] in this process; clock: the readings of
\* datetime.now() during the call.
generate_evaluation_report(scoring_result, skill_analysis, experience_analysis, config, first_ten, clock) ==
    IF scoring_result = None \/ experience_analysis = None
    THEN MinimalReport(clock.generated_at)   \* attribute access on None raises inside the try
    ELSE EvaluationReportResponse(
             scoring_result,
             _generate_summary_statement(scoring_result.overall_score,
                 IF config = None THEN ReportTemplateConfig ELSE config),
             _identify_strengths(scoring_result, skill_analysis, experience_analysis,
                 IF config = None THEN ReportTemplateConfig ELSE config),
             _identify_weaknesses(scoring_result, skill_analysis, experience_analysis,
                 IF config = None THEN ReportTemplateConfig ELSE config),
             _generate_recommendations(scoring_result, skill_analysis, experience_analysis,
                 IF config = None THEN ReportTemplateConfig ELSE config, first_ten),
             skill_analysis, experience_analysis,
             IF config = None THEN ReportTemplateConfig ELSE config, clock)

(***************************************************************************)
(* Arguments of generate_evaluation_report.  The same request is served    *)
(* up to MaxReportCalls times; every call reads the clock and iterates the *)
(* set CRITICAL_SKILLS in the order of the process that serves it.         *)
(***************************************************************************)
MaxReportCalls == 2

ScoringResultData(overall, skills, experience, achievement, structure, missing) ==
    [overall_score |-> overall, skills_score |-> skills, experience_score |-> experience,
     achievement_score |-> achievement, structure_score |-> structure,
     missing_sections |-> missing]

ScoringResultInputs ==
    {ScoringResultData(96, R(90), R(92), R(80), R(95), <<>>),
     ScoringResultData(94, R(90), R(92), R(80), R(95), <<>>),
     ScoringResultData(50, R(90), R(92), R(80), R(95), <<>>),
     ScoringResultData(72, Frac(655, 10), R(61), R(45), R(83), <<"summary", "education">>),
     ScoringResultData(35, R(20), R(30), R(0), R(40), <<"experience", "summary", "education">>),
     None}

SkillEvaluation(skill, score, level) == [skill |-> skill, score |-> score, level |-> level]

FiveHighSkills ==
    <<SkillEvaluation("Python", 90, "Expert"), SkillEvaluation("Java", 85, "Expert"),
      SkillEvaluation("Docker", 75, "Intermediate"), SkillEvaluation("AWS", 80, "Expert"),
      SkillEvaluation("Fortran", 71, "Intermediate")>>

SkillEvaluationInputs ==
    {<<>>,
     <<SkillEvaluation("Python", 30, "Beginner")>>,
     <<SkillEvaluation("COBOL", 20, "Beginner"), SkillEvaluation("javascript", 40, "Intermediate"),
       SkillEvaluation("Rust", 95, "Expert")>>,
     FiveHighSkills,
     FiveHighSkills \o <<SkillEvaluation("SQL", 60, "Advanced"),
                         SkillEvaluation("Agile", 41, "Intermediate"),
                         SkillEvaluation("MySQL", 100, "Expert")>>}

ExperienceEvaluation(years, seniority, achievement, strength, strong, weak, quantified) ==
    [total_experience_years |-> years, seniority_level |-> seniority,
     achievement_score |-> achievement, experience_strength_score |-> strength,
     strong_verbs_count |-> strong, weak_verbs_count |-> weak,
     quantified_achievements |-> quantified]

ExperienceEvaluationInputs ==
    {ExperienceEvaluation(8, "Senior", 85, 90, 6, 1,
         <<"Increased revenue by 25%", "Led a team of 12", "Cut costs by $2 million">>),
     ExperienceEvaluation(0, "Entry", 0, 0, 0, 0, <<>>),
     ExperienceEvaluation(2, "Junior", 40, 50, 1, 2, <<"Served 300 users">>),
     ExperienceEvaluation(6, "Senior", 60, 75, 2, 1,
         <<"Increased revenue by 25%", "Led a team of 12">>),
     None}

ConfigInputs ==
    {None,
     [high_score_threshold |-> 90, moderate_score_threshold |-> 50,
      high_skill_threshold |-> 80, low_skill_threshold |-> 30,
      strong_achievement_threshold |-> 60, experience_strength_threshold |-> 60]}

\* list(CRITICAL_SKILLS)[:10] as observed with PYTHONHASHSEED 0, 1 and 2.
IterationOrders ==
    {<<"javascript", "c#", "azure", "mysql", "rust", "aws", "ansible", "tensorflow",
       "node.js", "hadoop">>,
     <<"rest api", "hadoop", "data science", "ansible", "postgresql", "typescript",
       "javascript", "mysql", "flask", "spark">>,
     <<"agile", "vue", "mysql", "spring", "pytorch", "elasticsearch", "data science",
       "hadoop", "rust", "docker">>}

\* The readings of datetime.now() during a call.
ClockInputs ==
    {[today |-> "2026-11-03", generated_at |-> "2026-11-03T23:59:58"],
     [today |-> "2026-11-04", generated_at |-> "2026-11-04T00:00:02"]}

ReportRequests ==
    [status : {"called"}, scoring_result : ScoringResultInputs,
     skill_analysis : SkillEvaluationInputs,
     experience_analysis : ExperienceEvaluationInputs, config : ConfigInputs]

GenerateEvaluationReport ==
    /\ reportReq # None
    /\ Len(reportResp) < MaxReportCalls
    /\ \E first_ten \in IterationOrders, clock \in ClockInputs :
          reportResp' = Append(reportResp,
              generate_evaluation_report(reportReq.scoring_result, reportReq.skill_analysis,
                  reportReq.experience_analysis, reportReq.config, first_ten, clock))
    /\ UNCHANGED <<reportReq, scoreReq, scoreResp, expReq, expResp, parseReq, parseResp, skillReq, skillResp, entityVars, pipelineVars, tableVars, sectionVars, strengthVars, clockVars>>

InitReport ==
    /\ reportReq \in ReportRequests /\ reportResp = <<>>
    /\ scoreReq = None /\ scoreResp = None
    /\ expReq = None /\ expResp = None
    /\ parseReq = None /\ parseResp = None
    /\ skillReq = None /\ skillResp = None
    /\ EntityIdle
    /\ PipelineIdle
    /\ TableIdle
    /\ SectionCallsIdle
    /\ StrengthIdle
    /\ ClockIdle

NextReport == GenerateEvaluationReport

SpecReport == InitReport /\ [][NextReport]_vars

(***************************************************************************)
(* Properties of EvaluationReportGenerator.                                *)
(***************************************************************************)
\* The reports returned so far by the normal path.
Reports == {i \in 1..Len(reportResp) : reportResp[i].path = "try"}

C18_ReportIsFunctionOfInputs ==
    Len(reportResp) = 2 => reportResp[1] = reportResp[2]

(***************************************************************************)
(* The three services that wrap their body in try/except, each called once *)
(* or, for the report, up to MaxReportCalls times.  A response with status  *)
(* "ok" is a value the call returned; a call that raised would leave        *)
(* status "raised".                                                         *)
(***************************************************************************)
InitContract == InitExperience \/ InitScoring \/ InitReport

NextContract == AnalyzeExperience \/ ComputeFinalResumeScore \/ GenerateEvaluationReport

SpecContract == InitContract /\ [][NextContract]_vars

\* The call got None where the signature demands a record, and its body read it.
ExperienceContractViolated ==
    /\ expResp # None
    /\ ~OnlyWhitespace(expReq.experience_text)
    /\ expReq.entities = None

ScoringContractViolated == scoreResp # None /\ scoreReq.experience_analysis = None

ReportContractViolated ==
    /\ reportResp # <<>>
    /\ (reportReq.scoring_result = None \/ reportReq.experience_analysis = None)

\* C20: a call that is given None in place of a record fails loudly: it raises
\* instead of returning a default result.
C20_ContractViolationsFailLoudly ==
    /\ ExperienceContractViolated => expResp.status = "raised"
    /\ ScoringContractViolated => scoreResp.status = "raised"
    /\ ReportContractViolated => \A i \in 1..Len(reportResp) : reportResp[i].status = "raised"

(***************************************************************************)
(* EntityExtractionService (modules/parsing/entity_service.py).            *)
(*                                                                         *)
(* A section is a record: its text, and what the regular expressions and   *)
(* the NER model find in that text (the matches of re.findall, pattern by  *)
(* pattern, and the entities of doc.ents, in their order).  The skills are *)
(* extracted from the text itself.                                         *)
(***************************************************************************)
TECHNICAL_SKILLS ==
    {"python", "java", "javascript", "typescript", "c++", "c#", "php", "ruby", "go", "rust",
     "swift", "kotlin", "scala", "r", "matlab", "perl", "shell", "bash", "powershell",
     "html", "css", "react", "angular", "vue", "node.js", "express", "django", "flask",
     "spring", "laravel", "rails", "asp.net", "blazor", "next.js", "nuxt.js",
     "sql", "mysql", "postgresql", "mongodb", "redis", "elasticsearch", "cassandra",
     "dynamodb", "oracle", "sqlite", "mariadb", "neo4j",
     "aws", "azure", "gcp", "docker", "kubernetes", "jenkins", "git", "github", "gitlab",
     "terraform", "ansible", "chef", "puppet", "vagrant", "ci/cd",
     "machine learning", "deep learning", "tensorflow", "pytorch", "scikit-learn",
     "pandas", "numpy", "spark", "hadoop", "kafka", "airflow",
     "jira", "confluence", "slack", "linux", "windows", "macos", "vim", "vscode",
     "intellij", "eclipse", "postman", "swagger", "graphql", "rest api"}

UpperChar(c) ==
    IF c \in Lower
    THEN Char(UpperLetters, CHOOSE i \in 1..Len(LowerLetters) : Char(LowerLetters, i) = c)
    ELSE c

\* str.title(): a letter is upper-cased after a character that is not a letter
\* and lower-cased after a letter.
RECURSIVE TitleFrom(_, _)
TitleFrom(s, i) ==
    IF i > Len(s) THEN ""
    ELSE (IF i > 1 /\ Char(s, i - 1) \in (Upper \cup Lower)
          THEN LowerChar(Char(s, i)) ELSE UpperChar(Char(s, i)))
         \o TitleFrom(s, i + 1)

title(s) == TitleFrom(s, 1)

\* s.split(separator) for a separator of one character
RECURSIVE split(_, _)
split(s, separator) ==
    LET at == {i \in 1..Len(s) : Char(s, i) = separator}
    IN  IF at = {} THEN <<s>>
        ELSE <<SubSeq(s, 1, FirstOf(at) - 1)>>
             \o split(SubSeq(s, FirstOf(at) + 1, Len(s)), separator)

\* re.sub(r'[^\w\s+#.]', '', s)
RECURSIVE KeepSkillChars(_)
KeepSkillChars(s) ==
    IF s = "" THEN ""
    ELSE (IF Char(s, 1) \in (WordChars \cup Whitespace \cup {"+", "#", "."})
          THEN Char(s, 1) ELSE "")
         \o KeepSkillChars(Tail(s))

\* The separators of one ASCII character; the two bullet separators of the
\* list do not occur in the texts of the model.
skill_separators == <<",", "-", "|", "\n", ";">>

\* The skills the first loop adds: dictionary entries found as whole words.
DictionarySkills(skills_lower) ==
    {title(skill) : skill \in {k \in TECHNICAL_SKILLS :
                                  Contains(k, skills_lower) /\ SearchWord(k, skills_lower)}}

\* The cleaned pieces of the text split at one separator.
CleanPieces(skills_text, separator) ==
    IF ~Contains(separator, skills_text) THEN {}
    ELSE {strip(KeepSkillChars(strip(split(skills_text, separator)[i]))) :
             i \in 1..Len(split(skills_text, separator))}

\* The skills the second loop adds.
SeparatedSkills(skills_text) ==
    {title(piece) : piece \in
        {c \in UNION {CleanPieces(skills_text, skill_separators[k]) :
                         k \in 1..Len(skill_separators)} :
            Len(c) >= 2 /\ Len(c) <= 30 /\ lower(c) \in TECHNICAL_SKILLS}}

\* list(a_set): the elements in the order the process iterates the set.  The
\* order follows the hashes of the strings, which change with the hash seed
\* of the process; the seed selects a permutation of the elements.
RECURSIVE Enumerate(_)
Enumerate(S) ==
    IF S = {} THEN <<>>
    ELSE <<CHOOSE x \in S : TRUE>> \o Enumerate(S \ {CHOOSE x \in S : TRUE})

Without(s, i) == SubSeq(s, 1, i - 1) \o SubSeq(s, i + 1, Len(s))

\* The permutation of s that the number k selects, digit by digit.
RECURSIVE Permuted(_, _)
Permuted(s, k) ==
    IF s = <<>> THEN <<>>
    ELSE <<s[(k % Len(s)) + 1]>> \o Permuted(Without(s, (k % Len(s)) + 1), k \div Len(s))

MaxHashSeed == 5

HashSeeds == 0..MaxHashSeed

ListOfSet(S, seed) == Permuted(Enumerate(S), seed)

\* set(s): the elements added to a set one by one.
RECURSIVE Range(_)
Range(s) == IF s = <<>> THEN {} ELSE {Head(s)} \cup Range(Tail(s))

_extract_skills(skills_text, seed) ==
    IF skills_text = "" THEN <<>>
    ELSE ListOfSet(DictionarySkills(lower(skills_text)) \cup SeparatedSkills(skills_text), seed)

Section(text, emails, phones, titles, degrees, ents) ==
    [text |-> text, emails |-> emails, phones |-> phones, titles |-> titles,
     degrees |-> degrees, ents |-> ents]

\* A match of re.findall: a tuple of groups for a pattern with several groups,
\* the text of the group for a pattern with one group.
Groups(groups) == [tuple |-> TRUE, groups |-> groups]

OneGroup(str) == [tuple |-> FALSE, groups |-> <<str>>]

Ent(label, text) == [label |-> label, text |-> text]

\* " ".join(parts)
RECURSIVE JoinSpace(_)
JoinSpace(parts) ==
    IF parts = <<>> THEN ""
    ELSE IF Len(parts) = 1 THEN parts[1]
    ELSE parts[1] \o " " \o JoinSpace(Tail(parts))

\* "-".join(parts)
RECURSIVE JoinDash(_)
JoinDash(parts) ==
    IF parts = <<>> THEN ""
    ELSE IF Len(parts) = 1 THEN parts[1]
    ELSE parts[1] \o "-" \o JoinDash(Tail(parts))

\* [part for part in match if part]: the non-empty groups of a tuple, the
\* characters of a string.
RECURSIVE NonEmpty(_)
NonEmpty(parts) ==
    IF parts = <<>> THEN <<>>
    ELSE (IF Head(parts) = "" THEN <<>> ELSE <<Head(parts)>>) \o NonEmpty(Tail(parts))

PartsOf(match) ==
    IF match.tuple THEN NonEmpty(match.groups)
    ELSE [i \in 1..Len(match.groups[1]) |-> Char(match.groups[1], i)]

\* The sections with text, in the order of the dict.
SectionOrder == <<"summary", "skills", "experience", "education", "other">>

RECURSIVE WithText(_, _)
WithText(sections, keys) ==
    IF keys = <<>> THEN <<>>
    ELSE (IF sections[Head(keys)].text = "" THEN <<>> ELSE <<sections[Head(keys)]>>)
         \o WithText(sections, Tail(keys))

\* re.findall(email_pattern, all_text)
RECURSIVE EmailsIn(_)
EmailsIn(texts) ==
    IF texts = <<>> THEN <<>> ELSE Head(texts).emails \o EmailsIn(Tail(texts))

\* re.findall(phone_patterns[p], all_text)
RECURSIVE PhonesIn(_, _)
PhonesIn(texts, p) ==
    IF texts = <<>> THEN <<>> ELSE Head(texts).phones[p] \o PhonesIn(Tail(texts), p)

\* The first phone pattern with a match decides.
RECURSIVE PhoneLoop(_, _)
PhoneLoop(texts, p) ==
    IF p > 3 THEN ""
    ELSE IF PhonesIn(texts, p) # <<>> THEN JoinDash(PhonesIn(texts, p)[1])
    ELSE PhoneLoop(texts, p + 1)

_extract_contact_info(texts) ==
    [email |-> IF EmailsIn(texts) = <<>> THEN "" ELSE EmailsIn(texts)[1],
     phone |-> PhoneLoop(texts, 1)]

\* doc.ents of the text of several sections joined by spaces
RECURSIVE EntsIn(_)
EntsIn(texts) ==
    IF texts = <<>> THEN <<>> ELSE Head(texts).ents \o EntsIn(Tail(texts))

\* The first PERSON entity of doc.ents that passes the filter, "" when none does.
RECURSIVE PersonIn(_)
PersonIn(ents) ==
    IF ents = <<>> THEN ""
    ELSE IF /\ Head(ents).label = "PERSON"
            /\ Len(strip(Head(ents).text)) > 2
            /\ \A word \in {"resume", "cv", "profile", "engineer", "developer", "manager"} :
                  ~Contains(word, lower(strip(Head(ents).text)))
         THEN strip(Head(ents).text)
         ELSE PersonIn(Tail(ents))

\* The loop over text_sources; a source is the entities of its text, or <<>>
\* for a blank text.
RECURSIVE NameLoop(_)
NameLoop(sources) ==
    IF sources = <<>> THEN ""
    ELSE IF PersonIn(Head(sources)) # "" THEN PersonIn(Head(sources))
    ELSE NameLoop(Tail(sources))

\* nlp is TRUE when the spaCy model was loaded.
_extract_name(sections, nlp) ==
    IF ~nlp THEN ""
    ELSE NameLoop(<<IF strip(sections.summary.text) = "" THEN <<>> ELSE sections.summary.ents,
                    IF strip(sections.other.text) = "" THEN <<>> ELSE sections.other.ents,
                    EntsIn(WithText(sections, SectionOrder))>>)

\* The ORG entities the loop adds to companies.
RECURSIVE CompaniesIn(_)
CompaniesIn(ents) ==
    IF ents = <<>> THEN <<>>
    ELSE (IF /\ Head(ents).label = "ORG"
             /\ Len(strip(Head(ents).text)) > 1
             /\ \A word \in {"university", "college", "school", "institute"} :
                   ~Contains(word, lower(strip(Head(ents).text)))
          THEN <<strip(Head(ents).text)>> ELSE <<>>)
         \o CompaniesIn(Tail(ents))

\* The DATE entities the loop adds to dates.
RECURSIVE DatesIn(_)
DatesIn(ents) ==
    IF ents = <<>> THEN <<>>
    ELSE (IF Head(ents).label = "DATE" /\ Len(strip(Head(ents).text)) > 2
          THEN <<strip(Head(ents).text)>> ELSE <<>>)
         \o DatesIn(Tail(ents))

\* The titles of the matches of one job title pattern.
RECURSIVE TitlesOf(_)
TitlesOf(matches) ==
    IF matches = <<>> THEN <<>>
    ELSE (IF strip(JoinSpace(PartsOf(Head(matches)))) = "" THEN <<>>
          ELSE <<strip(JoinSpace(PartsOf(Head(matches))))>>)
         \o TitlesOf(Tail(matches))

\* The titles in the order in which the loops over patterns and matches add them.
RECURSIVE TitlesLoop(_, _)
TitlesLoop(titles, p) ==
    IF p > Len(titles) THEN <<>> ELSE TitlesOf(titles[p]) \o TitlesLoop(titles, p + 1)

_extract_experience_entities(experience, nlp, seed) ==
    IF experience.text = "" \/ ~nlp
    THEN [companies |-> <<>>, job_titles |-> <<>>, dates |-> <<>>]
    ELSE [companies |-> ListOfSet(Range(CompaniesIn(experience.ents)), seed),
          job_titles |-> ListOfSet(Range(TitlesLoop(experience.titles, 1)), seed),
          dates |-> ListOfSet(Range(DatesIn(experience.ents)), seed)]

\* The degrees of the matches of one degree pattern.
RECURSIVE DegreesOf(_)
DegreesOf(matches) ==
    IF matches = <<>> THEN <<>>
    ELSE (IF Head(matches).tuple
          THEN (IF strip(JoinSpace(NonEmpty(Head(matches).groups))) = "" THEN <<>>
                ELSE <<strip(JoinSpace(NonEmpty(Head(matches).groups)))>>)
          ELSE (IF strip(Head(matches).groups[1]) = "" THEN <<>>
                ELSE <<strip(Head(matches).groups[1])>>))
         \o DegreesOf(Tail(matches))

RECURSIVE DegreesLoop(_, _)
DegreesLoop(degrees, p) ==
    IF p > Len(degrees) THEN <<>> ELSE DegreesOf(degrees[p]) \o DegreesLoop(degrees, p + 1)

_extract_education_entities(education, nlp, seed) ==
    IF education.text = "" THEN [degrees |-> <<>>, dates |-> <<>>]
    ELSE [degrees |-> ListOfSet(Range(DegreesLoop(education.degrees, 1)), seed),
          dates |-> IF nlp THEN ListOfSet(Range(DatesIn(education.ents)), seed) ELSE <<>>]

\* The loop of _normalize_entities over one list.
RECURSIVE DedupIgnoringCase(_, _)
DedupIgnoringCase(items, seen) ==
    IF items = <<>> THEN <<>>
    ELSE IF lower(Head(items)) \in seen THEN DedupIgnoringCase(Tail(items), seen)
    ELSE <<strip(Head(items))>>
         \o DedupIgnoringCase(Tail(items), seen \cup {lower(Head(items))})

\* re.sub(r'[^\d]', '', phone)
RECURSIVE DigitsOf(_)
DigitsOf(s) ==
    IF s = "" THEN ""
    ELSE (IF Char(s, 1) \in Digit THEN Char(s, 1) ELSE "") \o DigitsOf(Tail(s))

FormatPhone(phone, phone_digits) ==
    IF Len(phone_digits) = 10
    THEN "(" \o SubSeq(phone_digits, 1, 3) \o ") " \o SubSeq(phone_digits, 4, 6)
             \o "-" \o SubSeq(phone_digits, 7, 10)
    ELSE IF Len(phone_digits) = 11 /\ Char(phone_digits, 1) = "1"
    THEN "+1 (" \o SubSeq(phone_digits, 2, 4) \o ") " \o SubSeq(phone_digits, 5, 7)
             \o "-" \o SubSeq(phone_digits, 8, 11)
    ELSE phone

_normalize_entities(entities) ==
    [entities EXCEPT !.skills = DedupIgnoringCase(entities.skills, {}),
                     !.companies = DedupIgnoringCase(entities.companies, {}),
                     !.job_titles = DedupIgnoringCase(entities.job_titles, {}),
                     !.education_degrees = DedupIgnoringCase(entities.education_degrees, {}),
                     !.dates = DedupIgnoringCase(entities.dates, {}),
                     !.email = strip(lower(entities.email)),
                     !.name = strip(entities.name),
                     !.phone = IF entities.phone = "" THEN ""
                               ELSE FormatPhone(entities.phone, DigitsOf(entities.phone))]

EntitiesOf(contact, name, skills, experience_entities, education_entities) ==
    [status |-> "ok", name |-> name, email |-> contact.email, phone |-> contact.phone,
     skills |-> skills,
     companies |-> experience_entities.companies,
     job_titles |-> experience_entities.job_titles,
     education_degrees |-> education_entities.degrees,
     dates |-> experience_entities.dates \o education_entities.dates]

\* nlp: whether the spaCy model was loaded; seed: the hash seed of the process.
extract_entities(sections, nlp, seed) ==
    _normalize_entities(
        EntitiesOf(_extract_contact_info(WithText(sections, SectionOrder)),
                   _extract_name(sections, nlp),
                   _extract_skills(sections.skills.text, seed),
                   _extract_experience_entities(sections.experience, nlp, seed),
                   _extract_education_entities(sections.education, nlp, seed)))

(***************************************************************************)
(* Arguments of extract_entities.  The matches in each section are those   *)
(* the patterns of the source find in its text; the entities are what a    *)
(* NER model may return for it.                                            *)
(***************************************************************************)
NoText ==
    Section("", <<>>, <<<<>>, <<>>, <<>>>>, <<<<>>, <<>>, <<>>, <<>>>>,
            <<<<>>, <<>>, <<>>, <<>>, <<>>, <<>>>>, <<>>)

SummaryInputs ==
    {NoText,
     Section("Jane Doe, engineer. Jane.Doe@Example.com, 555-123-4567",
             <<"Jane.Doe@Example.com">>,
             <<<<<<"555", "123", "4567">>>>, <<>>, <<>>>>,
             <<<<Groups(<<"", "", "engineer">>)>>, <<>>, <<>>, <<>>>>,
             <<<<>>, <<>>, <<>>, <<>>, <<>>, <<>>>>,
             <<Ent("PERSON", "Jane Doe")>>)}

SkillsInputs ==
    {NoText,
     Section("Python, Java, AWS",
             <<>>,
             <<<<>>, <<>>, <<>>>>,
             <<<<>>, <<>>, <<>>, <<>>>>,
             <<<<>>, <<>>, <<>>, <<>>, <<>>, <<>>>>,
             <<>>),
     Section("python; PYTHON; Docker",
             <<>>,
             <<<<>>, <<>>, <<>>>>,
             <<<<>>, <<>>, <<>>, <<>>>>,
             <<<<>>, <<>>, <<>>, <<>>, <<>>, <<>>>>,
             <<>>),
     Section("C++ | c# | Node.js",
             <<>>,
             <<<<>>, <<>>, <<>>>>,
             <<<<>>, <<>>, <<>>, <<>>>>,
             <<<<>>, <<>>, <<>>, <<>>, <<>>, <<>>>>,
             <<>>)}

ExperienceSectionInputs ==
    {NoText,
     Section("Senior Software Engineer at Acme Corp 2018 - 2021, senior software engineer at ACME CORP 2021 - Present",
             <<>>,
             <<<<>>, <<>>, <<>>>>,
             <<<<Groups(<<"Senior", "Software", "Engineer">>), Groups(<<"senior", "software", "engineer">>)>>, <<>>, <<>>, <<>>>>,
             <<<<>>, <<>>, <<>>, <<>>, <<>>, <<>>>>,
             <<Ent("ORG", "Acme Corp"), Ent("DATE", "2018 - 2021"), Ent("ORG", "ACME CORP"), Ent("DATE", "2021 - Present")>>),
     Section("Junior Developer at Initech in 2016, then Project Manager at Globex University",
             <<>>,
             <<<<>>, <<>>, <<>>>>,
             <<<<Groups(<<"Junior", "", "Developer">>), Groups(<<"", "", "Manager">>)>>, <<>>, <<OneGroup("Project")>>, <<>>>>,
             <<<<>>, <<>>, <<>>, <<>>, <<>>, <<>>>>,
             <<Ent("ORG", "Initech"), Ent("DATE", "2016"), Ent("ORG", "Globex University")>>)}

EducationInputs ==
    {NoText,
     Section("Bachelor of Science 2014, bachelor degree, MBA 2016",
             <<>>,
             <<<<>>, <<>>, <<>>>>,
             <<<<>>, <<>>, <<>>, <<>>>>,
             <<<<Groups(<<"Bachelor", "">>), Groups(<<"bachelor", "">>)>>, <<Groups(<<"MBA", "BA">>)>>, <<>>, <<OneGroup("MBA")>>, <<>>, <<>>>>,
             <<Ent("DATE", "2014"), Ent("DATE", "2016")>>)}

OtherInputs ==
    {NoText,
     Section("John Smith Resume. Call 5559876543",
             <<>>,
             <<<<<<"555", "987", "6543">>>>, <<<<"5", "559", "876", "543">>>>, <<<<"5559876543">>>>>>,
             <<<<>>, <<>>, <<>>, <<>>>>,
             <<<<>>, <<>>, <<>>, <<>>, <<>>, <<>>>>,
             <<Ent("PERSON", "John Smith Resume"), Ent("PERSON", "John Smith")>>)}

EntityRequests ==
    [status : {"called"},
     sections : [summary : SummaryInputs, skills : SkillsInputs,
                 experience : ExperienceSectionInputs, education : EducationInputs,
                 other : OtherInputs],
     nlp : BOOLEAN]

ExtractEntities ==
    /\ entReq # None
    /\ entResp = None
    /\ \E seed \in HashSeeds :
          entResp' = extract_entities(entReq.sections, entReq.nlp, seed)
    /\ UNCHANGED <<entReq, scoreReq, scoreResp, expReq, expResp, parseReq, parseResp, skillReq, skillResp, reportVars, pipelineVars, tableVars, sectionVars, strengthVars, clockVars>>

InitEntities ==
    /\ entReq \in EntityRequests /\ entResp = None
    /\ scoreReq = None /\ scoreResp = None
    /\ expReq = None /\ expResp = None
    /\ parseReq = None /\ parseResp = None
    /\ skillReq = None /\ skillResp = None
    /\ ReportIdle
    /\ PipelineIdle
    /\ TableIdle
    /\ SectionCallsIdle
    /\ StrengthIdle
    /\ ClockIdle

NextEntities == ExtractEntities

SpecEntities == InitEntities /\ [][NextEntities]_vars

(***************************************************************************)
(* Properties of EntityExtractionService.                                  *)
(***************************************************************************)
EntitiesReturned == entResp # None

\* No two entries of the list are equal ignoring case.
NoCaseVariants(list) ==
    \A i, j \in 1..Len(list) : i # j => lower(list[i]) # lower(list[j])

\* The index at which the entry is first seen, ignoring case, in the sequence
\* of the items in the order the text holds them.
FirstSeenAt(entry, seen) ==
    FirstOf({k \in 1..Len(seen) : lower(seen[k]) = lower(entry)})

\* The kept entries stand in first-seen order and in their first-seen spelling.
KeepsFirstSeen(list, seen) ==
    /\ \A i \in 1..Len(list) :
          FirstSeenAt(list[i], seen) > 0 /\ list[i] = seen[FirstSeenAt(list[i], seen)]
    /\ \A i, j \in 1..Len(list) :
          i < j => FirstSeenAt(list[i], seen) < FirstSeenAt(list[j], seen)

\* The skills stand in the order of their first mention in the skills text.
SkillsInTextOrder(list, skills_text) ==
    \A i, j \in 1..Len(list) :
        i < j => Find(lower(list[i]), lower(skills_text)) < Find(lower(list[j]), lower(skills_text))

\* C15: every list of the bundle is free of case-variant duplicates and keeps
\* first-seen order and first-seen spelling.
C15_ListsDedupedInFirstSeenOrder ==
    EntitiesReturned =>
        /\ NoCaseVariants(entResp.skills)
        /\ NoCaseVariants(entResp.companies)
        /\ NoCaseVariants(entResp.job_titles)
        /\ NoCaseVariants(entResp.education_degrees)
        /\ NoCaseVariants(entResp.dates)
        /\ SkillsInTextOrder(entResp.skills, entReq.sections.skills.text)
        /\ KeepsFirstSeen(entResp.companies, CompaniesIn(entReq.sections.experience.ents))
        /\ KeepsFirstSeen(entResp.job_titles, TitlesLoop(entReq.sections.experience.titles, 1))
        /\ KeepsFirstSeen(entResp.education_degrees,
                          DegreesLoop(entReq.sections.education.degrees, 1))
        /\ KeepsFirstSeen(entResp.dates,
                          DatesIn(entReq.sections.experience.ents)
                              \o DatesIn(entReq.sections.education.ents))

LowerSet(list) == {lower(list[i]) : i \in 1..Len(list)}

\* C16: without the NER model the call returns, with name, companies and dates
\* empty and with email, phone, skills, degrees and the job titles of the
\* regex templates as the text gives them.
C16_OnlyNerFieldsDegrade ==
    (EntitiesReturned /\ ~entReq.nlp) =>
        /\ entResp.status = "ok"
        /\ entResp.name = ""
        /\ entResp.companies = <<>>
        /\ entResp.dates = <<>>
        /\ entResp.email
             = lower(_extract_contact_info(WithText(entReq.sections, SectionOrder)).email)
        /\ (_extract_contact_info(WithText(entReq.sections, SectionOrder)).phone # "")
             = (entResp.phone # "")
        /\ LowerSet(entResp.skills)
             = {lower(s) : s \in DictionarySkills(lower(entReq.sections.skills.text))
                                  \cup SeparatedSkills(entReq.sections.skills.text)}
        /\ LowerSet(entResp.education_degrees)
             = LowerSet(DegreesLoop(entReq.sections.education.degrees, 1))
        /\ LowerSet(entResp.job_titles)
             = LowerSet(TitlesLoop(entReq.sections.experience.titles, 1))

(***************************************************************************)
(* The pipeline: the five stages called one after the other, each with     *)
(* the arguments of the request, and the whole run repeated on the same    *)
(* request with the same "now".                                            *)
(***************************************************************************)
MaxPipelineRuns == 2

PipelineTexts ==
    {join_newline(<<"SKILLS", "Python, Java">>),
     join_newline(<<"EXPERIENCE", "Engineer at Acme">>)}

PipelineSections ==
    {s \in [summary : {NoText}, skills : SkillsInputs \ {NoText},
            experience : ExperienceSectionInputs \ {NoText}, education : {NoText},
            other : {NoText}] : Len(s.experience.ents) = 3}

PipelineRequests ==
    [status : {"called"},
     text : PipelineTexts,
     sections : PipelineSections,
     nlp : BOOLEAN,
     skills : {<<"Python", "COBOL">>},
     resume_text : {"5 years of experience with Python, designed APIs"},
     experience_text : {<<YearToYear("2018-2020", 2018, 2020),
                          Words("Senior Engineer led the team", {"senior", "engineer"}, <<1, 0>>)>>},
     entities : {[dates |-> <<YearToPresent("2027 - Present", 2027)>>, job_titles |-> <<>>]},
     now : NowInputs,
     skill_analysis : {<<[skill |-> "Python", score |-> 90]>>},
     experience_analysis : {[total_experience_years |-> 10, seniority_level |-> "Senior",
                             achievement_score |-> 100, experience_strength_score |-> 60,
                             strong_verbs_count |-> 3, weak_verbs_count |-> 1]},
     structured_sections : {SectionLengths(120, 60, 0, 0, 0, 0, 0)},
     scoring_weights : {None}]

\* The results of the five stages of one run.
PipelineResults(req, parsing_time, seed, skill_time, table) ==
    [parsing |-> split_resume_into_sections(req.text, parsing_time, table),
     entities |-> extract_entities(req.sections, req.nlp, seed),
     skill_analysis |-> analyze_skill_proficiency(req.skills, req.resume_text, skill_time),
     experience_analysis |-> analyze_experience(req.experience_text, req.entities, req.now),
     scoring |-> compute_final_resume_score(req.skill_analysis, req.experience_analysis,
                                            req.structured_sections, req.scoring_weights)]

RunPipeline ==
    /\ pipeReq # None
    /\ Len(pipeRuns) < MaxPipelineRuns
    /\ \E parsing_time \in ElapsedInputs, seed \in HashSeeds, skill_time \in ElapsedInputs :
          pipeRuns' = Append(pipeRuns, PipelineResults(pipeReq, parsing_time, seed, skill_time,
                                                     TableOf(sectionKeywords, keywordLists)))
    /\ UNCHANGED <<pipeReq, scoreReq, scoreResp, expReq, expResp, parseReq, parseResp, skillReq, skillResp, reportVars, entityVars, tableVars, sectionVars, strengthVars, clockVars>>

InitPipeline ==
    /\ pipeReq \in PipelineRequests /\ pipeRuns = <<>>
    /\ scoreReq = None /\ scoreResp = None
    /\ expReq = None /\ expResp = None
    /\ parseReq = None /\ parseResp = None
    /\ skillReq = None /\ skillResp = None
    /\ ReportIdle
    /\ EntityIdle
    /\ TableIdle
    /\ SectionCallsIdle
    /\ StrengthIdle
    /\ ClockIdle

NextPipeline == RunPipeline

SpecPipeline == InitPipeline /\ [][NextPipeline]_vars

\* C17: two runs of the pipeline on the same request with the same "now" give
\* the same result in every field of every stage, list order included.
C17_TwoRunsGiveIdenticalOutput ==
    Len(pipeRuns) = MaxPipelineRuns => pipeRuns[1] = pipeRuns[MaxPipelineRuns]

(***************************************************************************)
(* Callers of get_supported_sections: one takes the dictionary and changes *)
(* it while requests are parsed.                                           *)
(***************************************************************************)
MaxNewKeywords == 2

NewKeyInputs == {"languages"}

KeywordInputs == {"python", "acme"}

RECURSIVE KeywordCount(_)
KeywordCount(lists) ==
    IF lists = <<>> THEN 0 ELSE Len(Head(lists)) + KeywordCount(Tail(lists))

\* SECTION_KEYWORDS.copy(): a new dictionary that refers to the same lists.
get_supported_sections(section_keywords) == section_keywords

GetSupportedSections ==
    /\ supportedSections = <<>>
    /\ supportedSections' = get_supported_sections(sectionKeywords)
    /\ UNCHANGED <<keywordLists, sectionKeywords, scoreReq, scoreResp, expReq, expResp, parseReq, parseResp, skillReq, skillResp, reportVars, entityVars, pipelineVars, sectionVars, strengthVars, clockVars>>

\* supported[key] = [keyword], for a key the dictionary does not hold.
CallerAddsKey ==
    /\ supportedSections # <<>>
    /\ KeywordCount(keywordLists) < KeywordCount(InitialKeywordLists) + MaxNewKeywords
    /\ \E key \in NewKeyInputs, keyword \in KeywordInputs :
          /\ \A i \in 1..Len(supportedSections) : supportedSections[i].type # key
          /\ keywordLists' = Append(keywordLists, <<keyword>>)
          /\ supportedSections' =
                Append(supportedSections, [type |-> key, list |-> Len(keywordLists) + 1])
    /\ UNCHANGED <<sectionKeywords, scoreReq, scoreResp, expReq, expResp, parseReq, parseResp, skillReq, skillResp, reportVars, entityVars, pipelineVars, sectionVars, strengthVars, clockVars>>

\* supported[key].append(keyword), for a key of the dictionary.
CallerAppendsKeyword ==
    /\ supportedSections # <<>>
    /\ KeywordCount(keywordLists) < KeywordCount(InitialKeywordLists) + MaxNewKeywords
    /\ \E i \in 1..Len(supportedSections), keyword \in KeywordInputs :
          keywordLists' =
             [keywordLists EXCEPT ![supportedSections[i].list] = Append(@, keyword)]
    /\ UNCHANGED <<sectionKeywords, supportedSections, scoreReq, scoreResp, expReq, expResp, parseReq, parseResp, skillReq, skillResp, reportVars, entityVars, pipelineVars, sectionVars, strengthVars, clockVars>>

InitSharedTable ==
    /\ parseReq \in {r \in ParseRequests : r.text \in TextsOfLines(2)}
    /\ parseResp = None
    /\ scoreReq = None /\ scoreResp = None
    /\ expReq = None /\ expResp = None
    /\ skillReq = None /\ skillResp = None
    /\ ReportIdle
    /\ EntityIdle
    /\ PipelineIdle
    /\ TableIdle
    /\ SectionCallsIdle
    /\ StrengthIdle
    /\ ClockIdle

NextSharedTable ==
    \/ GetSupportedSections
    \/ CallerAddsKey
    \/ CallerAppendsKeyword
    \/ SplitResumeIntoSections

SpecSharedTable == InitSharedTable /\ [][NextSharedTable]_vars

\* C19: whatever a caller does to the dictionary get_supported_sections gave
\* it, the keyword table the parser reads stays as the class body wrote it, and
\* a parsing response is the one the unchanged table gives.
C19_KeywordTableUnchanged ==
    /\ TableOf(sectionKeywords, keywordLists) = SECTION_KEYWORDS
    /\ parseResp # None =>
          \E processing_time \in ElapsedInputs :
              parseResp = split_resume_into_sections(parseReq.text, processing_time,
                                                     SECTION_KEYWORDS)

(***************************************************************************)
(* Direct calls of _detect_and_extract_sections and _classify_section.     *)
(***************************************************************************)
MaxDetectLines == 4

DetectLineInputs ==
    {"SKILLS", "Python, Java", "Skills:", "Go, Rust", "Hobbies", "EXPERIENCE", ""}

DetectRequests ==
    [status : {"called"},
     text : UNION {{join_newline(ls) : ls \in [1..n -> DetectLineInputs]} :
                      n \in 0..MaxDetectLines}]

HeadingInputs ==
    {"Project Experience", "Continuing Education", "Projects", "Key Skills",
     "Work Samples", "Professional Training", "Technical Skills", "Hobbies",
     "SKILLS", "Work History:", "Education", "** Career Summary **", "Qualifications",
     "Python, Java"}

ClassifyRequests == [status : {"called"}, heading : HeadingInputs]

DetectAndExtractSections ==
    /\ detectReq # None
    /\ detectResp = None
    /\ detectResp' = _detect_and_extract_sections(detectReq.text,
                        KeywordEntries(TableOf(sectionKeywords, keywordLists)))
    /\ UNCHANGED <<detectReq, classifyReq, classifyResp, scoreReq, scoreResp, expReq, expResp, parseReq, parseResp, skillReq, skillResp, reportVars, entityVars, pipelineVars, tableVars, strengthVars, clockVars>>

ClassifySection ==
    /\ classifyReq # None
    /\ classifyResp = None
    /\ classifyResp' =
          [status |-> "ok",
           section_type |-> _classify_section(classifyReq.heading,
                               KeywordEntries(TableOf(sectionKeywords, keywordLists)))]
    /\ UNCHANGED <<classifyReq, detectReq, detectResp, scoreReq, scoreResp, expReq, expResp, parseReq, parseResp, skillReq, skillResp, reportVars, entityVars, pipelineVars, tableVars, strengthVars, clockVars>>

InitSections ==
    /\ \/ detectReq \in DetectRequests /\ classifyReq = None
       \/ detectReq = None /\ classifyReq \in ClassifyRequests
    /\ detectResp = None /\ classifyResp = None
    /\ scoreReq = None /\ scoreResp = None
    /\ expReq = None /\ expResp = None
    /\ parseReq = None /\ parseResp = None
    /\ skillReq = None /\ skillResp = None
    /\ ReportIdle
    /\ EntityIdle
    /\ PipelineIdle
    /\ TableIdle
    /\ StrengthIdle
    /\ ClockIdle

NextSections == DetectAndExtractSections \/ ClassifySection

SpecSections == InitSections /\ [][NextSections]_vars

(***************************************************************************)
(* Properties of section extraction and heading classification.            *)
(***************************************************************************)
DetectReturned == detectResp # None

DetectLines == split_newline(detectReq.text)

\* The recognized headings, as <<section_type, line index from 0>>.
DetectHeadings == _find_section_boundaries(DetectLines, KeywordEntries(SECTION_KEYWORDS))

\* Line l (from 1) looks like a heading.
LooksLikeHeading(l) ==
    /\ Len(strip(DetectLines[l])) >= 3
    /\ _is_potential_heading(strip(DetectLines[l]), KeywordEntries(SECTION_KEYWORDS))

\* Line l (from 1) looks like a heading and no keyword classifies it.
UnrecognizedHeading(l) ==
    /\ LooksLikeHeading(l)
    /\ _classify_section(strip(DetectLines[l]), KeywordEntries(SECTION_KEYWORDS)) = <<>>

\* The content lines before the first recognized heading.
PreambleLines ==
    {l \in 1..DetectHeadings[1][2] : strip(DetectLines[l]) # "" /\ ~LooksLikeHeading(l)}

\* The content lines under the heading of line h, up to the next line that
\* looks like a heading.
LinesUnder(h) ==
    {l \in (h + 1)..Len(DetectLines) :
        /\ strip(DetectLines[l]) # ""
        /\ \A k \in (h + 1)..l : ~LooksLikeHeading(k)}

\* C21: in a text with a recognized heading, the content before the first
\* heading and the content under an unrecognized heading is in "other".
C21_UnattributedContentGoesToOther ==
    (DetectReturned /\ DetectHeadings # <<>>) =>
        /\ \A l \in PreambleLines : Contains(strip(DetectLines[l]), detectResp.other)
        /\ \A h \in 1..Len(DetectLines) :
              UnrecognizedHeading(h) =>
                  \A l \in LinesUnder(h) : Contains(strip(DetectLines[l]), detectResp.other)

ClassifyReturned == classifyResp # None

\* heading.lower().strip() with the runs of formatting characters made one space
CleanedHeading ==
    strip(SubRuns(strip(lower(classifyReq.heading)), 1, FormattingChars, " "))

\* The categories that list the keyword.
CategoriesOf(keyword) ==
    {SECTION_KEYWORDS[t].type : t \in {u \in 1..Len(SECTION_KEYWORDS) :
        \E k \in 1..Len(SECTION_KEYWORDS[u].keywords) :
            SECTION_KEYWORDS[u].keywords[k] = keyword}}

\* C22: a heading whose cleaned text equals a keyword is classified into the
\* category of that keyword.
C22_ExactMatchHasPriority ==
    (ClassifyReturned /\ CategoriesOf(CleanedHeading) # {}) =>
        /\ classifyResp.section_type # <<>>
        /\ classifyResp.section_type[1] \in CategoriesOf(CleanedHeading)

\* The content the code cuts out under the i-th recognized heading.
ContentOfHeading(i) ==
    LET start_line == DetectHeadings[i][2]
        end_line == IF i < Len(DetectHeadings) THEN DetectHeadings[i + 1][2]
                    ELSE Len(DetectLines)
    IN  strip(join_newline(SubSeq(DetectLines, start_line + 2, end_line)))

\* The recognized headings of the category that have content.
HeadingsWithContent(category) ==
    {i \in 1..Len(DetectHeadings) :
        DetectHeadings[i][1] = category /\ ContentOfHeading(i) # ""}

LastOf(S) == CHOOSE i \in S : \A j \in S : j <= i

\* C30: a section holds the content of the last heading of its category that
\* has content, and that only; the content of an earlier heading of the category
\* is moved to no other section: another section holds it only if the content
\* under a heading of that section does.
C30_LastHeadingOfCategoryWins ==
    DetectReturned =>
        \A category \in SectionKeys \ {"other"} :
            Cardinality(HeadingsWithContent(category)) >= 2 =>
                /\ detectResp[category] = ContentOfHeading(LastOf(HeadingsWithContent(category)))
                /\ \A i \in HeadingsWithContent(category) \ {LastOf(HeadingsWithContent(category))},
                      k \in SectionKeys \ {category} :
                      Contains(ContentOfHeading(i), detectResp[k]) =>
                          \E j \in 1..Len(DetectHeadings) :
                              /\ DetectHeadings[j][1] = k
                              /\ Contains(ContentOfHeading(i), ContentOfHeading(j))

\* Two skills headings with different content have been extracted.
C30_Witness ==
    /\ DetectReturned
    /\ detectReq.text = "SKILLS\nPython, Java\nSkills:\nGo, Rust"
    /\ detectResp.skills = "Go, Rust"
    /\ detectResp.other = ""

====
